---- MODULE Spec2Model ----
(***************************************************************************)
(* A model of the WebBS compiler (lexer, parser, validator, module and     *)
(* function code generation, byte code container).                         *)
(*                                                                         *)
(* The compiler is a pipeline of synchronous stages.  Each stage is        *)
(* modelled by its own group of variables and its own specification; the   *)
(* variables of the stages a specification does not exercise stay at       *)
(* their idle values.                                                      *)
(***************************************************************************)
EXTENDS Integers, Sequences, FiniteSets, TLC

VARIABLES
  lebKind,    \* which emitter call is made: "varuint", "i32", "i64"
  lebNegated, \* the literal is the child of a unary NEG node
  lebValue,   \* the integer handed to the emitter (a Num)
  lebBytes,   \* the bytes the emitter pushed
  lebStatus,  \* "input", "emitted", "rejected" (validator), "thrown" (varuint)
  pc,         \* the stage the pipeline is in: "ready", "parse", "loop", "resolve",
              \* "validate", "generate", "bytes", "done", "failed"
  runs,       \* the number of texts the editor has been given so far
  seen,       \* history: the outcome of the first compilation of each text
  source,     \* the text in the editor
  lastIndex,  \* regexp.lastIndex, the lexer's module-level state
  tokens,     \* the token list lexify returned (parse's argument)
  index,      \* parse: the loop counter
  node,       \* parse: the current node (an id into nodes)
  nodes,      \* the AST node objects, by id (creation order); 1 is the ROOT
  scopes,     \* the scope objects, by id (creation order); 1 is the global scope
  defs,       \* the definition objects, by id (creation order)
  glob,       \* the lists every scope shares by reference (signatures, imports, ...)
  err,        \* the exception that ended the pipeline, if any
  bc,         \* the ByteCodeContainer tree: the shared parts and the open containers
  byteView,   \* the bytes of the module-level float buffer of byteCode.js
  out         \* what toByteArray returned

lebVars == <<lebKind, lebNegated, lebValue, lebBytes, lebStatus>>
pipeVars ==
  <<pc, runs, seen, source, lastIndex, tokens, index, node, nodes, scopes, defs, glob, err, bc, byteView,
    out>>

vars == <<lebVars, pipeVars>>

\* The idle values of the groups of variables a specification does not use.
LEBIdle ==
  /\ lebKind = "none" /\ lebNegated = FALSE /\ lebValue = [neg |-> FALSE, mag |-> <<>>]
  /\ lebBytes = <<>> /\ lebStatus = "idle"

PipeIdle ==
  /\ pc = "idle" /\ runs = 0 /\ seen = <<>> /\ source = <<>> /\ lastIndex = 0 /\ tokens = <<>> /\ index = 0 /\ node = 0 /\ nodes = <<>>
  /\ scopes = <<>> /\ defs = <<>> /\ glob = <<>> /\ err = <<>> /\ bc = <<>> /\ out = <<>>
  /\ byteView = <<0, 0, 0, 0, 0, 0, 0, 0>>

(***************************************************************************)
(* JS numbers.  Every integer the compiler handles is a JS Number, exact   *)
(* up to 2^53.  A Num is a sign and a magnitude written in base 128, least *)
(* significant digit first, without trailing zero digits.  The bitwise     *)
(* operators of JS first convert their operand to 32 bits (ToInt32 /       *)
(* ToUint32); that conversion is modelled on the digits.                   *)
(***************************************************************************)

RECURSIVE Canon(_)
Canon(digits) ==
  IF digits = <<>> THEN <<>>
  ELSE IF digits[Len(digits)] = 0 THEN Canon(SubSeq(digits, 1, Len(digits) - 1))
  ELSE digits

Digit(v, i) == IF i <= Len(v.mag) THEN v.mag[i] ELSE 0

NumOfNat(n) ==
  [neg |-> FALSE,
   mag |-> Canon(<<n % 128, (n \div 128) % 128, (n \div 16384) % 128,
                   (n \div 2097152) % 128, (n \div 268435456) % 128>>)]

Negate(v) == IF v.mag = <<>> THEN v ELSE [v EXCEPT !.neg = ~v.neg]

\* v > 2^32 - 1, for v >= 0
ExceedsUint32(v) == Len(v.mag) > 5 \/ (Len(v.mag) = 5 /\ v.mag[5] > 15)

\* v > 2^31, for v >= 0
ExceedsTwoTo31(v) ==
  \/ Len(v.mag) > 5
  \/ /\ Len(v.mag) = 5
     /\ \/ v.mag[5] > 8
        \/ v.mag[5] = 8 /\ \E i \in 1..4 : v.mag[i] # 0

\* Number.isSafeInteger: |v| <= 2^53 - 1
isSafeInteger(v) == Len(v.mag) < 8 \/ (Len(v.mag) = 8 /\ v.mag[8] < 16)

\* The low 28 bits of |v|.
Low28(v) == Digit(v, 1) + 128 * Digit(v, 2) + 16384 * Digit(v, 3) + 2097152 * Digit(v, 4)

\* JS ToInt32: v modulo 2^32, read as a two's complement 32-bit integer.
ToInt32(v) ==
  LET top == Digit(v, 5) % 16
      s == Low28(v) + 268435456 * (IF top >= 8 THEN top - 16 ELSE top)
  IN IF ~v.neg THEN s
     ELSE IF s = (-8) * 268435456 THEN s
     ELSE -s

\* number & 0b01111111 and number >>> 7, for number >= 0.
LowSeven(v) == Digit(v, 1)
ShiftRightUnsigned7(v) ==
  [neg |-> FALSE, mag |-> Canon(<<Digit(v, 2), Digit(v, 3), Digit(v, 4), Digit(v, 5) % 16>>)]

(***************************************************************************)
(* byteCode.js: LEB128 encoders.                                           *)
(***************************************************************************)

\* LEB(number, buffer): signed LEB128.  `number & 127` and `number >> 7`
\* work on ToInt32(number); after the first step number is an int32.
RECURSIVE LEBInt(_)
LEBInt(number) ==
  LET byte == number % 128
      signBit == IF byte >= 64 THEN 64 ELSE 0
      rest == (number - byte) \div 128
  IN IF (rest = 0 /\ signBit = 0) \/ (rest = -1 /\ signBit # 0)
     THEN <<byte>>
     ELSE <<byte + 128>> \o LEBInt(rest)

LEB(number) == LEBInt(ToInt32(number))

\* uLEB(number, buffer): unsigned LEB128, number >= 0.
RECURSIVE uLEB(_)
uLEB(number) ==
  LET byte == LowSeven(number)
      rest == ShiftRightUnsigned7(number)
  IN IF rest.mag = <<>>
     THEN <<byte>>
     ELSE <<byte + 128>> \o uLEB(rest)

\* ByteCodeContainer.varuint's guard: Number.isInteger(value), value >= 0,
\* value <= 2^32 - 1 (bound = 32).
varuintInRange(value) == ~value.neg /\ ~ExceedsUint32(value)

\* validate, I32_LITERAL / I64_LITERAL: the range check on the parsed value.
literalInRange(runType, value, negative) ==
  IF runType = "i32"
  THEN ~(IF negative THEN ExceedsTwoTo31(value) ELSE ExceedsUint32(value))
  ELSE isSafeInteger(value)

(***************************************************************************)
(* LEB128 decoding, as the WebAssembly binary format defines it.           *)
(***************************************************************************)

Payload(bytes) == [i \in 1..Len(bytes) |-> bytes[i] % 128]

\* Exactly the last byte has its continuation bit clear.
WellFormedLEB(bytes) ==
  /\ Len(bytes) >= 1
  /\ \A i \in 1..Len(bytes) : bytes[i] \in 0..255 /\ ((bytes[i] >= 128) <=> (i < Len(bytes)))

DecodeUnsigned(bytes) == [neg |-> FALSE, mag |-> Canon(Payload(bytes))]

\* The value of a signed LEB128 sequence, as a Num: sign-extend from the
\* top payload bit of the last byte.
RECURSIVE Complement(_)
Complement(digits) ==   \* 128^n - value(digits), for value(digits) > 0
  IF digits = <<>> THEN <<>>
  ELSE IF digits[1] = 0 THEN <<0>> \o Complement(Tail(digits))
  ELSE <<128 - digits[1]>> \o [i \in 1..(Len(digits) - 1) |-> 127 - digits[i + 1]]

DecodeSigned(bytes) ==
  LET p == Payload(bytes)
  IN IF p[Len(p)] >= 64
     THEN [neg |-> TRUE, mag |-> Canon(Complement(p))]
     ELSE [neg |-> FALSE, mag |-> Canon(p)]

(***************************************************************************)
(* The inputs of the encoders: magnitudes up to NumDigits base-128 digits. *)
(***************************************************************************)

NumDigits == 8
LowDigits == {0, 1, 63, 64, 127}
TopDigits == {1, 7, 8, 15, 16, 64, 127}

Magnitudes ==
  {<<>>} \cup
  { [i \in 1..n |-> IF i = n THEN t ELSE f] : n \in 1..NumDigits, f \in LowDigits, t \in TopDigits }

LEBInit ==
  /\ lebKind \in {"varuint", "i32", "i64"}
  /\ lebNegated \in BOOLEAN
  /\ (lebKind = "varuint" => ~lebNegated)
  /\ lebValue \in { [neg |-> FALSE, mag |-> m] : m \in Magnitudes }
  /\ lebBytes = <<>>
  /\ lebStatus = "input"

\* ByteCodeContainer.varuint(value, field)
varuint ==
  /\ lebStatus = "input"
  /\ lebKind = "varuint"
  /\ IF varuintInRange(lebValue)
     THEN lebBytes' = uLEB(lebValue) /\ lebStatus' = "emitted"
     ELSE lebBytes' = <<>> /\ lebStatus' = "thrown"
  /\ UNCHANGED <<lebKind, lebNegated, lebValue>>
  /\ UNCHANGED pipeVars

\* validate (I32_LITERAL / I64_LITERAL), then generate (the literal itself,
\* or its NEG parent, which emits -value) and ByteCodeContainer.literal.
literal ==
  /\ lebStatus = "input"
  /\ lebKind \in {"i32", "i64"}
  /\ IF literalInRange(lebKind, lebValue, lebNegated)
     THEN LET value == IF lebNegated THEN Negate(lebValue) ELSE lebValue
          IN /\ lebValue' = value
             /\ lebBytes' = LEB(value)
             /\ lebStatus' = "emitted"
     ELSE /\ lebBytes' = <<>>
          /\ lebStatus' = "rejected"
          /\ UNCHANGED lebValue
  /\ UNCHANGED <<lebKind, lebNegated>>
  /\ UNCHANGED pipeVars

LEBNext == varuint \/ literal

InitLEB == LEBInit /\ PipeIdle

SpecLEB == InitLEB /\ [][LEBNext]_vars

(***************************************************************************)
(* C1: LEB128 correctness.  Every emitted varint is well formed and        *)
(* decodes (unsigned for varuint, signed for i32/i64 literals, negated     *)
(* ones included) to exactly the integer supplied.                         *)
(***************************************************************************)
C1_LEBRoundTrip ==
  lebStatus = "emitted" =>
    /\ WellFormedLEB(lebBytes)
    /\ IF lebKind = "varuint"
       THEN DecodeUnsigned(lebBytes) = lebValue
       ELSE DecodeSigned(lebBytes) = lebValue

(***************************************************************************)
(* byteCode.js: the codeTable and the ByteCodeContainer.                   *)
(***************************************************************************)

opCodes ==
  <<"unreachable", "nop", "block", "loop", "if", "else", "", "", "", "", "", "end", "br",
    "br_if", "br_table", "return", "call", "call_indirect", "", "", "", "", "", "", "", "",
    "drop", "select", "", "", "", "", "get_local", "set_local", "tee_local", "get_global",
    "set_global", "", "", "", "i32.load", "i64.load", "f32.load", "f64.load", "i32.load8_s",
    "i32.load8_u", "i32.load16_s", "i32.load16_u", "i64.load8_s", "i64.load8_u",
    "i64.load16_s", "i64.load16_u", "i64.load32_s", "i64.load32_u", "i32.store", "i64.store",
    "f32.store", "f64.store", "i32.store8", "i32.store16", "i64.store8", "i64.store16",
    "i64.store32", "current_memory", "grow_memory", "i32.const", "i64.const", "f32.const",
    "f64.const", "i32.eqz", "i32.eq", "i32.ne", "i32.lt_s", "i32.lt_u", "i32.gt_s", "i32.gt_u",
    "i32.le_s", "i32.le_u", "i32.ge_s", "i32.ge_u", "i64.eqz", "i64.eq", "i64.ne", "i64.lt_s",
    "i64.lt_u", "i64.gt_s", "i64.gt_u", "i64.le_s", "i64.le_u", "i64.ge_s", "i64.ge_u",
    "f32.eq", "f32.ne", "f32.lt", "f32.gt", "f32.le", "f32.ge", "f64.eq", "f64.ne", "f64.lt",
    "f64.gt", "f64.le", "f64.ge", "i32.clz", "i32.ctz", "i32.popcnt", "i32.add", "i32.sub",
    "i32.mul", "i32.div_s", "i32.div_u", "i32.rem_s", "i32.rem_u", "i32.and", "i32.or",
    "i32.xor", "i32.shl", "i32.shr_s", "i32.shr_u", "i32.rotl", "i32.rotr", "i64.clz",
    "i64.ctz", "i64.popcnt", "i64.add", "i64.sub", "i64.mul", "i64.div_s", "i64.div_u",
    "i64.rem_s", "i64.rem_u", "i64.and", "i64.or", "i64.xor", "i64.shl", "i64.shr_s",
    "i64.shr_u", "i64.rotl", "i64.rotr", "f32.abs", "f32.neg", "f32.ceil", "f32.floor",
    "f32.trunc", "f32.nearest", "f32.sqrt", "f32.add", "f32.sub", "f32.mul", "f32.div",
    "f32.min", "f32.max", "f32.copysign", "f64.abs", "f64.neg", "f64.ceil", "f64.floor",
    "f64.trunc", "f64.nearest", "f64.sqrt", "f64.add", "f64.sub", "f64.mul", "f64.div",
    "f64.min", "f64.max", "f64.copysign", "i32.wrap/i64", "i32.trunc_s/f32", "i32.trunc_u/f32",
    "i32.trunc_s/f64", "i32.trunc_u/f64", "i64.extend_s/i32", "i64.extend_u/i32",
    "i64.trunc_s/f32", "i64.trunc_u/f32", "i64.trunc_s/f64", "i64.trunc_u/f64",
    "f32.convert_s/i32", "f32.convert_u/i32", "f32.convert_s/i64", "f32.convert_u/i64",
    "f32.demote/f64", "f64.convert_s/i32", "f64.convert_u/i32", "f64.convert_s/i64",
    "f64.convert_u/i64", "f64.promote/f32", "i32.reinterpret/f32", "i64.reinterpret/f64",
    "f32.reinterpret/i32", "f64.reinterpret/i64">>

baseCodes ==
  [c \in {"i32", "i64", "f32", "f64", "anyfunc", "func", "void", "section.type",
          "section.import", "section.function", "section.table", "section.memory",
          "section.global", "section.export", "section.start", "section.element",
          "section.code", "section.data", "external_kind.function", "external_kind.table",
          "external_kind.memory", "external_kind.global", "global.immutable",
          "global.mutable"} |->
     CASE c = "i32" -> 127 [] c = "i64" -> 126 [] c = "f32" -> 125 [] c = "f64" -> 124
       [] c = "anyfunc" -> 112 [] c = "func" -> 96 [] c = "void" -> 64
       [] c = "section.type" -> 1 [] c = "section.import" -> 2 [] c = "section.function" -> 3
       [] c = "section.table" -> 4 [] c = "section.memory" -> 5 [] c = "section.global" -> 6
       [] c = "section.export" -> 7 [] c = "section.start" -> 8 [] c = "section.element" -> 9
       [] c = "section.code" -> 10 [] c = "section.data" -> 11
       [] c = "external_kind.function" -> 0 [] c = "external_kind.table" -> 1
       [] c = "external_kind.memory" -> 2 [] c = "external_kind.global" -> 3
       [] c = "global.immutable" -> 0 [] c = "global.mutable" -> 1]

\* What a stage throws: a CompileError with its type, or one of the errors
\* the JS runtime raises; NoError while nothing was thrown.
NoError == [name |-> "none", type |-> ""]
CompileError(type) == [name |-> "CompileError", type |-> type]
TypeError(what) == [name |-> "TypeError", type |-> what]

Throw(h, error) == IF h.thrown = NoError THEN [h EXCEPT !.thrown = error] ELSE h

\* codeTable[code]; -1 stands for undefined, a descriptor the table does
\* not hold.
CodeIn(codes, base, code) ==
  LET at == {i \in 1..Len(codes) : codes[i] = code /\ code # ""}
  IN IF at # {} THEN (CHOOSE i \in at : \A j \in at : j <= i) - 1
     ELSE IF code \in DOMAIN base THEN base[code]
     ELSE -1

codeTable(code) == CodeIn(opCodes, baseCodes, code)

\* new ByteCodeContainer("module"): parts are shared by every container of
\* the tree; open lists the containers from the module down to the one the
\* chained calls currently write to.
NewByteCodeContainer ==
  [parts |-> <<>>,
   open |-> <<[path |-> <<"module">>, totalSize |-> 0, reservedSizeRecord |-> 0]>>,
   thrown |-> NoError]

This(b) == b.open[Len(b.open)]

\* ByteCodeContainer.bytes(bytes, field, value)
bytes(b, bs, field, value) ==
  IF b.thrown # NoError THEN b
  ELSE [b EXCEPT
          !.parts = Append(@, [bytes |-> bs, field |-> field,
                               path |-> Append(This(b).path, field),
                               singular |-> FALSE, value |-> value]),
          !.open[Len(b.open)].totalSize = @ + Len(bs)]

\* ByteCodeContainer.byte(code, field)
byte(b, code, field) ==
  IF b.thrown # NoError THEN b
  ELSE [b EXCEPT
          !.parts = Append(@, [bytes |-> <<codeTable(code)>>, field |-> field,
                               path |-> Append(This(b).path, field),
                               singular |-> TRUE, value |-> code]),
          !.open[Len(b.open)].totalSize = @ + 1]

\* ByteCodeContainer.op(code)
op(b, code) == byte(b, code, "op")

\* ByteCodeContainer.varuint(value, field), value a Num
varuintNum(b, value, field) ==
  IF b.thrown # NoError THEN b
  ELSE IF ~varuintInRange(value)
  THEN Throw(b, CompileError("Integer Out of Range in Code Generation"))
  ELSE bytes(b, uLEB(value), field, value)

\* the same for a small integer (a count, an index); a negative one stands
\* for any value varuint rejects (a negative number, undefined, NaN)
varuintOf(b, n, field) ==
  IF n < 0 THEN Throw(b, CompileError("Integer Out of Range in Code Generation"))
  ELSE varuintNum(b, NumOfNat(n), field)

\* ByteCodeContainer.reserveSize(field)
reserveSize(b, field) ==
  IF b.thrown # NoError THEN b
  ELSE LET placed == bytes(b, <<>>, field, This(b).totalSize)
       IN [placed EXCEPT !.open[Len(b.open)].reservedSizeRecord = Len(placed.parts)]

\* ByteCodeContainer.section(name)
section(b, name) ==
  IF b.thrown # NoError THEN b
  ELSE [b EXCEPT !.open = Append(@, [path |-> Append(This(b).path, name),
                                      totalSize |-> 0, reservedSizeRecord |-> 0])]

\* finishSection without `this.totalSize += bytes.length`: the size is
\* recorded, its own bytes are not counted.
FinishSectionSizedNotCounted(b) ==
  LET this == This(b)
      record == this.reservedSizeRecord
      size == this.totalSize - b.parts[record].value
      recorded == uLEB(NumOfNat(size))
  IN [parts |-> [b.parts EXCEPT ![record].bytes = recorded, ![record].value = size],
      totalSize |-> this.totalSize]

\* The size finishSection records, and the bytes it adds to totalSize for it.
FinishSectionSized(b) ==
  LET this == This(b)
      record == this.reservedSizeRecord
      size == this.totalSize - b.parts[record].value
      recorded == uLEB(NumOfNat(size))
  IN [parts |-> [b.parts EXCEPT ![record].bytes = recorded, ![record].value = size],
      totalSize |-> this.totalSize + Len(recorded)]

\* ByteCodeContainer.finishSection()
finishSection(b) ==
  IF b.thrown # NoError THEN b
  ELSE LET n == Len(b.open)
           sized == IF This(b).reservedSizeRecord # 0
                    THEN FinishSectionSized(b)
                    ELSE [parts |-> b.parts, totalSize |-> This(b).totalSize]
       IN [b EXCEPT !.parts = sized.parts,
                    !.open = [i \in 1..(n - 1) |->
                                IF i = n - 1
                                THEN [b.open[i] EXCEPT !.totalSize = @ + sized.totalSize]
                                ELSE b.open[i]]]

\* The code unit at position i (from 1), -1 past the end.
At(text, i) == IF i >= 1 /\ i <= Len(text) THEN text[i] ELSE -1

\* The line terminators, which "." does not match.
isLineTerminator(c) == c \in {10, 13, 8232, 8233}

\* The pattern \\. scanned from position start: the backslash at j matches
\* it iff an even number of backslashes of start..j-1 run up to j (they
\* pair off from the left) and the unit after j is not a line terminator.
Escaping(text, start, j) ==
  LET before == { k \in (start - 1)..(j - 1) : k = start - 1 \/ text[k] # 92 }
      run == j - 1 - (CHOOSE k \in before : \A l \in before : l <= k)
  IN /\ At(text, j) = 92
     /\ run % 2 = 0
     /\ At(text, j + 1) # -1
     /\ ~isLineTerminator(At(text, j + 1))

\* The unit at j is the "." of a \\. scanned from position start.
Escaped(text, start, j) == j > start /\ Escaping(text, start, j - 1)

\* string.replace(unescapeRegex, "$1"): /\\(.)/g, on a sequence of code
\* units: every matched backslash is dropped.
unescape(str) ==
  LET kept == { j \in 1..Len(str) : ~Escaping(str, 1, j) }
  IN [k \in 1..Cardinality(kept) |->
        str[CHOOSE j \in kept : Cardinality({ l \in kept : l <= j }) = k]]

\* TextEncoder.encode, for code points below 2^16 that are not surrogates
\* (evaluated by halves).
RECURSIVE UTF8Encode(_)
UTF8Encode(str) ==
  IF str = <<>> THEN <<>>
  ELSE IF Len(str) = 1
  THEN LET c == str[1]
       IN IF c < 128 THEN <<c>>
          ELSE IF c < 2048 THEN <<192 + (c \div 64), 128 + (c % 64)>>
          ELSE <<224 + (c \div 4096), 128 + ((c \div 64) % 64), 128 + (c % 64)>>
  ELSE UTF8Encode(SubSeq(str, 1, Len(str) \div 2))
       \o UTF8Encode(SubSeq(str, Len(str) \div 2 + 1, Len(str)))

\* ByteCodeContainer.string(string, field)
string(b, str, field) ==
  LET encoded == UTF8Encode(unescape(str))
  IN bytes(varuintOf(b, Len(encoded), field \o "_len"), encoded, field, str)

\* ByteCodeContainer.WASMModuleHeader()
WASMModuleHeader(b) ==
  bytes(bytes(b, <<0, 97, 115, 109>>, "magic number", "\\0asm"),
        <<1, 0, 0, 0>>, "version", 1)

\* ByteCodeContainer.toByteArray(): a Uint8Array of totalSize bytes, filled
\* part by part; an undefined byte is stored as 0; a write past the end is
\* dropped (singular part) or raises RangeError (bytes.set).
RECURSIVE Flatten(_)
Flatten(parts) ==
  IF parts = <<>> THEN <<>>
  ELSE IF Len(parts) = 1 THEN parts[1].bytes
  ELSE Flatten(SubSeq(parts, 1, Len(parts) \div 2))
       \o Flatten(SubSeq(parts, Len(parts) \div 2 + 1, Len(parts)))

toByteArray(b) ==
  LET flat == Flatten(b.parts)
      size == b.open[1].totalSize
      overrun == \E k \in 1..Len(b.parts) :
                   ~b.parts[k].singular /\ Len(Flatten(SubSeq(b.parts, 1, k))) > size
  IN IF Len(flat) > size /\ overrun
     THEN [thrown |-> [name |-> "RangeError", type |-> "offset is out of bounds"],
           bytes |-> << >>]
     ELSE [thrown |-> NoError,
           bytes |-> [i \in 1..size |-> IF i > Len(flat) \/ flat[i] = -1 THEN 0 ELSE flat[i]]]

(***************************************************************************)
(* /compiler/syntax.js: the properties of the ASTypes.  An ASType is        *)
(* modelled by its export name.                                             *)
(***************************************************************************)
Infinity == 1000000

InfixTypes ==
  {"DEFINITION", "DECLARATION", "SCALE_OP", "ADD", "AS", "MISC_INFIX", "SUB",
   "BITWISE_AND", "BITWISE_OR", "BITWISE_SHIFT", "BITWISE_XOR", "ORDER_COMPARISON",
   "EQ_COMPARISON", "AND", "OR", "ASSIGN", "ELSE", "INIT_EXPR"}

OpenTypes == {"ADDRESS", "ARG_LIST", "BLOCK", "PARAM_LIST", "PAREN", "ROOT", "TYPE_LIST"}

leftOperands(t) == IF t \in InfixTypes \cup {"SUFFIX_OP"} THEN 1 ELSE 0

rightOperands(t) ==
  CASE t \in {"ALLOCATE_PAGES", "CALL", "EXPORT", "IMMUTABLE", "LOOP", "MEMORY_ACCESS",
              "NEG", "UNARY_MATH_OP", "PTR", "RETURN", "YIELD"} -> 1
    [] t \in {"DEFAULT_MEMORY", "DEFAULT_TABLE", "FN_PTR", "FN_SIGNATURE", "IF"} -> 2
    [] t \in {"FN", "IMPORT"} -> 3
    [] t \in InfixTypes -> 1
    [] OTHER -> 0

expectedChildCount(t) ==
  IF t \in OpenTypes THEN Infinity ELSE leftOperands(t) + rightOperands(t)

\* "null" stands for null.
ignoresTerminator(t) ==
  CASE t \in {"ARG_LIST", "PARAM_LIST", "TYPE_LIST"} -> "COMMA"
    [] t \in {"ADDRESS", "BLOCK", "PAREN", "ROOT"} -> "SEMICOLON"
    [] OTHER -> "null"

requiresTerminator(t) ==
  CASE t = "ADDRESS" -> "ADDRESS_CLOSE"
    [] t = "BLOCK" -> "BLOCK_CLOSE"
    [] t = "ROOT" -> "END_OF_INPUT"
    [] t \in {"ARG_LIST", "PARAM_LIST", "PAREN", "TYPE_LIST"} -> "PAREN_CLOSE"
    [] OTHER -> "null"

isTerminator(t) ==
  t \in {"BLOCK_CLOSE", "COMMA", "END_OF_INPUT", "ADDRESS_CLOSE", "PAREN_CLOSE", "SEMICOLON"}

createsName(t) == t \in {"DECLARATION", "DEFINITION"}
createsNewScope(t) == t \in {"BLOCK", "FN", "LOOP", "ROOT"}
isReference(t) == t \in {"CALL", "MEMORY_ACCESS", "VARIABLE"}
rightAssociative(t) == t \in {"ASSIGN", "ELSE", "INIT_EXPR"}
skip(t) == t \in {"COMMENT", "WS"}

\* The child type constraints: the acceptable ASTypes at each operand position.
CTCByPos(t) ==
  CASE t = "ASSIGN" -> << {"DEFINITION", "VARIABLE", "MEMORY_ACCESS"} >>
    [] t = "AS" -> << {"EXPORT_TYPE", "VARIABLE"}, {"STRING"} >>
    [] t = "DECLARATION" ->
         << {"VARIABLE"}, {"FN_PTR", "FN_SIGNATURE", "IMMUTABLE", "PTR", "VALUE_TYPE"} >>
    [] t \in {"DEFAULT_MEMORY", "DEFAULT_TABLE"} -> << {"I32_LITERAL"}, {"I32_LITERAL", "VOID"} >>
    [] t = "DEFINITION" -> << {"VARIABLE"}, {"FN", "FN_PTR", "IMMUTABLE", "PTR", "VALUE_TYPE"} >>
    [] t = "ELSE" -> << {"IF"}, {"BLOCK", "BREAK", "CONTINUE", "IF", "ELSE"} >>
    [] t = "EXPORT" -> << {"AS", "VARIABLE"} >>
    [] t = "FN" -> << {"PARAM_LIST"}, {"VALUE_TYPE", "VOID"}, {"BLOCK"} >>
    [] t \in {"FN_PTR", "FN_SIGNATURE"} -> << {"TYPE_LIST"}, {"VALUE_TYPE", "VOID"} >>
    [] t = "IF" -> << {"PAREN"}, {"BLOCK", "BREAK", "CONTINUE"} >>
    [] t = "IMMUTABLE" -> << {"FN_PTR", "PTR", "VALUE_TYPE"} >>
    [] t = "IMPORT" -> << {"DECLARATION", "DEFAULT_MEMORY", "DEFAULT_TABLE"}, {"FROM"}, {"STRING"} >>
    [] t = "INIT_EXPR" ->
         << {"DEFINITION"}, {"F32_LITERAL", "F64_LITERAL", "I32_LITERAL", "I64_LITERAL", "VARIABLE"} >>
    [] t = "LOOP" -> << {"BLOCK", "ELSE", "IF"} >>
    [] t = "NEG" -> << {"F32_LITERAL", "F64_LITERAL", "I32_LITERAL", "I64_LITERAL"} >>
    [] t = "PTR" -> << {"STORAGE_TYPE", "VALUE_TYPE"} >>
    [] t = "SUFFIX_OP" -> << {"VARIABLE"} >>
    [] OTHER -> << >>

CTCForAll(t) ==
  CASE t = "PARAM_LIST" -> {"DECLARATION"}
    [] t = "ROOT" -> {"DEFINITION", "DEFAULT_MEMORY", "DEFAULT_TABLE", "EXPORT", "IMPORT", "INIT_EXPR"}
    [] t = "TYPE_LIST" -> {"VALUE_TYPE"}

\* ASType.CTC(node) on the ASTypes of the node's children: "null", a
\* "violation", or the "TypeError" of reading .ASType of a missing child.
CTC(t, childTypes) ==
  CASE t \in {"PARAM_LIST", "ROOT", "TYPE_LIST"} ->
         IF \E i \in 1..Len(childTypes) : childTypes[i] \notin CTCForAll(t)
         THEN "violation" ELSE "null"
    [] t = "ADDRESS" ->
         IF Len(childTypes) = 1 \/ (Len(childTypes) = 2 /\ childTypes[2] = "I32_LITERAL")
         THEN "null" ELSE "violation"
    [] OTHER ->
         LET positions == CTCByPos(t)
             bad == { i \in 1..Len(positions) :
                        i > Len(childTypes) \/ childTypes[i] \notin positions[i] }
             first == CHOOSE i \in bad : \A j \in bad : i <= j
         IN IF bad = {} THEN "null"
            ELSE IF first > Len(childTypes) THEN "TypeError" ELSE "violation"

\* The parent type constraints: pairs of a parent ASType and a position
\* (0-based; -1 stands for null, any position).
PTCByPos(t) ==
  CASE t = "ADDRESS" -> {<<"MEMORY_ACCESS", 0>>}
    [] t = "AS" -> {<<"EXPORT", 0>>}
    [] t \in {"BREAK", "CONTINUE"} -> {<<"BLOCK", -1>>, <<"IF", 1>>, <<"ELSE", 1>>}
    [] t \in {"DEFAULT_MEMORY", "DEFAULT_TABLE"} -> {<<"ROOT", -1>>, <<"IMPORT", 0>>}
    [] t \in {"EXPORT", "IMPORT"} -> {<<"ROOT", -1>>}
    [] t = "FN" -> {<<"DEFINITION", 1>>}
    [] t = "FN_PTR" -> {<<"DEFINITION", 1>>, <<"DECLARATION", 1>>}
    [] t = "FROM" -> {<<"IMPORT", 1>>}
    [] t = "IMMUTABLE" -> {<<"DEFINITION", 1>>}
    [] t = "PTR" -> {<<"DECLARATION", 1>>, <<"DEFINITION", 1>>, <<"IMMUTABLE", 0>>}
    [] t \in {"RETURN", "YIELD"} -> {<<"BLOCK", -1>>}
    [] t = "STRING" -> {<<"IMPORT", 2>>, <<"AS", 1>>}
    [] t = "STORAGE_TYPE" -> {<<"PTR", 0>>}
    [] t = "VALUE_TYPE" ->
         {<<"DECLARATION", 1>>, <<"DEFINITION", 1>>, <<"FN", 1>>, <<"FN_PTR", 1>>,
          <<"FN_SIGNATURE", 1>>, <<"IMMUTABLE", 0>>, <<"PTR", 0>>, <<"TYPE_LIST", -1>>}
    [] t = "VOID" ->
         {<<"FN", 1>>, <<"FN_PTR", 1>>, <<"FN_SIGNATURE", 1>>, <<"DEFAULT_MEMORY", 1>>,
          <<"DEFAULT_TABLE", 1>>}
    [] OTHER -> {}

HasPTC ==
  {"ADDRESS", "AS", "BREAK", "CONTINUE", "DEFAULT_MEMORY", "DEFAULT_TABLE", "EXPORT",
   "IMPORT", "FN", "FN_PTR", "FROM", "IMMUTABLE", "PTR", "RETURN", "YIELD", "STRING",
   "STORAGE_TYPE", "VALUE_TYPE", "VOID"}

\* ASType.PTC(node): TRUE iff placing a t under a parentType parent that has
\* parentLength children already violates t's constraint.
PTC(t, parentType, parentLength) ==
  /\ t \in HasPTC
  /\ ~ \E position \in PTCByPos(t) :
         parentType = position[1] /\ (position[2] = -1 \/ parentLength = position[2])

tiers ==
  << {"DEFINITION", "DECLARATION", "AS"},
     {"CALL", "DEFAULT_MEMORY", "DEFAULT_TABLE", "FN", "FN_PTR", "FN_SIGNATURE", "EXPORT",
      "IF", "IMMUTABLE", "IMPORT", "MEMORY_ACCESS", "PTR"},
     {"ELSE"}, {"SUFFIX_OP"}, {"LOOP", "NEG", "UNARY_MATH_OP"}, {"SCALE_OP"},
     {"ADD", "SUB"}, {"MISC_INFIX"}, {"BITWISE_SHIFT"}, {"ORDER_COMPARISON"},
     {"EQ_COMPARISON"}, {"BITWISE_AND"}, {"BITWISE_XOR"}, {"BITWISE_OR"}, {"AND"}, {"OR"},
     {"ASSIGN", "INIT_EXPR"}, {"ALLOCATE_PAGES", "RETURN", "YIELD"} >>

precedence(t) ==
  IF \E i \in 1..Len(tiers) : t \in tiers[i]
  THEN Len(tiers) - ((CHOOSE i \in 1..Len(tiers) : t \in tiers[i]) - 1)
  ELSE 0 - Infinity

getASType(ASType, parentType) ==
  IF ASType = "PAREN" THEN
    CASE parentType = "FN" -> "PARAM_LIST"
      [] parentType = "CALL" -> "ARG_LIST"
      [] parentType \in {"FN_PTR", "FN_SIGNATURE"} -> "TYPE_LIST"
      [] OTHER -> ASType
  ELSE IF parentType \in {"IMPORT", "PARAM_LIST"} THEN
    IF ASType = "DEFINITION" THEN "DECLARATION" ELSE ASType
  ELSE IF parentType = "DECLARATION" THEN
    IF ASType = "FN" THEN "FN_SIGNATURE" ELSE ASType
  ELSE IF parentType = "EXPORT" THEN
    IF ASType \in {"DEFAULT_MEMORY", "DEFAULT_TABLE"} THEN "EXPORT_TYPE" ELSE ASType
  ELSE IF ASType = "ASSIGN" /\ parentType = "ROOT" THEN "INIT_EXPR"
  ELSE ASType

(***************************************************************************)
(* /compiler/parser.js.  The objects the parser allocates live in three     *)
(* tables (nodes, scopes, defs) and are referred to by their position in    *)
(* them; 0 stands for null.  glob holds the arrays that createScope copies  *)
(* by reference into every scope.  An operator takes the tables as one      *)
(* record h and returns the updated record; h.thrown is the exception in    *)
(* flight, and every operator is the identity once something is thrown.     *)
(***************************************************************************)
nullToken == [ASType |-> "null", text |-> "", chars |-> <<>>]
nullMeta == [kind |-> "null"]

Heap == [nodes |-> nodes, scopes |-> scopes, defs |-> defs, glob |-> glob, thrown |-> err]

createScope(h, parent) ==
  IF parent = 0
  THEN [h EXCEPT
         !.scopes = Append(@, [parent |-> 0, names |-> << >>, definitions |-> << >>,
                               isGlobal |-> TRUE, variables |-> << >>, variablesOf |-> 1,
                               references |-> << >>, children |-> << >>]),
         !.glob = [functionSignatureIndexMap |-> << >>, functionSignatures |-> << >>,
                   defaultMemory |-> << >>, defaultTable |-> << >>,
                   imports |-> [function |-> << >>, global |-> << >>],
                   functions |-> << >>, exports |-> << >>]]
  ELSE LET scope == Len(h.scopes) + 1
       IN [h EXCEPT
            !.scopes = Append([@ EXCEPT ![parent].children = Append(@, scope)],
                              [parent |-> parent, names |-> h.scopes[parent].names,
                               definitions |-> << >>, isGlobal |-> FALSE, variables |-> << >>,
                               variablesOf |-> IF h.scopes[parent].isGlobal THEN scope
                                               ELSE h.scopes[parent].variablesOf,
                               references |-> << >>, children |-> << >>])]

\* The new node is Len(result.nodes).
createASTNode(h, token, parent, ASType) ==
  LET outer == IF parent = 0 THEN 0 ELSE h.nodes[parent].scope
      h1 == IF createsNewScope(ASType) THEN createScope(h, outer) ELSE h
      scope == IF createsNewScope(ASType) THEN Len(h1.scopes) ELSE outer
  IN [h1 EXCEPT !.nodes = Append(@,
        [alwaysEscapes |-> FALSE, ASType |-> ASType, children |-> << >>,
         complete |-> expectedChildCount(ASType) = 0, dropValue |-> FALSE, meta |-> nullMeta,
         parent |-> parent, runType |-> "void", scope |-> scope, token |-> token])]

\* storageTypeSplitter.exec(storageType), on the texts the lexer gives a
\* STORAGE_TYPE or a VALUE_TYPE; bits 0 stands for an undefined group.
storageTypeSplitter(storageType) ==
  LET value == CASE storageType \in {"i32", "i32_s8", "i32_u8", "i32_s16", "i32_u16"} -> "i32"
                 [] storageType \in {"i64", "i64_s8", "i64_u8", "i64_s16", "i64_u16",
                                     "i64_s32", "i64_u32"} -> "i64"
                 [] storageType = "f32" -> "f32"
                 [] storageType = "f64" -> "f64"
      storage == CASE storageType \in {"i32_s8", "i32_u8", "i64_s8", "i64_u8"} -> 8
                   [] storageType \in {"i32_s16", "i32_u16", "i64_s16", "i64_u16"} -> 16
                   [] storageType \in {"i64_s32", "i64_u32"} -> 32
                   [] OTHER -> 0
      sign == CASE storageType \in {"i32_s8", "i32_s16", "i64_s8", "i64_s16", "i64_s32"} -> "s"
                [] storageType \in {"i32_u8", "i32_u16", "i64_u8", "i64_u16", "i64_u32"} -> "u"
                [] OTHER -> "undefined"
  IN [returnType |-> value, bits |-> IF value \in {"i32", "f32"} THEN 32 ELSE 64,
      storageSigned |-> sign, storageBits |-> storage]

\* [returnType, ...paramTypes].join(",")
signatureKey(signature) ==
  LET RECURSIVE join(_)
      join(i) == IF i > Len(signature) THEN ""
                 ELSE IF i = 1 THEN signature[1] \o join(2)
                 ELSE "," \o signature[i] \o join(i + 1)
  IN join(1)

\* functionSignatureIndex without the map: every signature is appended.
functionSignatureIndexAppending(h, paramTypes, returnType) ==
  LET signature == <<returnType>> \o paramTypes
  IN [h |-> [h EXCEPT !.glob.functionSignatures = Append(@, signature)],
      index |-> Len(h.glob.functionSignatures)]

\* Returns the tables and the index.
functionSignatureIndex(h, paramTypes, returnType) ==
  LET signature == <<returnType>> \o paramTypes
      key == signatureKey(signature)
      map == h.glob.functionSignatureIndexMap
  IN IF key \in DOMAIN map
     THEN [h |-> h, index |-> map[key]]
     ELSE [h |-> [h EXCEPT !.glob.functionSignatureIndexMap =
                             [k \in DOMAIN map \cup {key} |->
                                IF k = key THEN Len(h.glob.functionSignatures) ELSE map[k]],
                           !.glob.functionSignatures = Append(@, signature)],
           index |-> Len(h.glob.functionSignatures)]

\* The fields a definition object may have; define, defineMemory and
\* defineTable fill in the ones of their kind.  An index of -1 stands for
\* undefined.
noDefinition ==
  [ASType |-> "undefined", exportName |-> << >>, isGlobal |-> FALSE, importSource |-> << >>,
   index |-> -1, initializer |-> 0, kind |-> "undefined", mutable |-> FALSE, name |-> "",
   chars |-> << >>, runType |-> "undefined", scope |-> 0, body |-> 0, paramTypes |-> << >>,
   returnType |-> "undefined", signatureIndex |-> -1, extendedType |-> FALSE,
   storageSigned |-> "undefined", storageBits |-> 0, storageSize |-> 0,
   storageType |-> "undefined", initialSize |-> 0, maxSize |-> 0]

\* The fields define gives the definition of a function, a function
\* signature or a function pointer.
functionFields(definition, body, isFnPtr, mutable, paramTypes, returnType, signatureIndex) ==
  [definition EXCEPT
     !.body = body, !.kind = IF isFnPtr THEN "global" ELSE "function",
     !.mutable = isFnPtr /\ mutable, !.paramTypes = paramTypes, !.returnType = returnType,
     !.runType = IF isFnPtr THEN "i32" ELSE "void", !.signatureIndex = signatureIndex]

\* The fields define gives the definition of a pointer, split being the
\* groups of storageTypeSplitter.
pointerFields(definition, split, storageType) ==
  [definition EXCEPT
     !.extendedType = split.storageBits # 0, !.storageSigned = split.storageSigned,
     !.storageBits = split.storageBits, !.runType = "i32", !.returnType = split.returnType,
     !.storageSize = (IF split.storageBits # 0 THEN split.storageBits ELSE split.bits) \div 8,
     !.storageType = storageType]

\* The end of define: node.meta = spec.meta = definition, and the pushes
\* onto the lists of the scopes.
register(h, n, spec, definition) ==
  LET parentType == h.nodes[h.nodes[n].parent].ASType
      d == Len(h.defs) + 1
      owner == h.scopes[h.nodes[spec].scope].variablesOf
  IN [h EXCEPT
        !.defs = Append(@, definition),
        !.nodes = [@ EXCEPT ![n].meta = [kind |-> "definition", definition |-> d],
                            ![spec].meta = [kind |-> "definition", definition |-> d]],
        !.scopes = [[@ EXCEPT ![h.nodes[h.nodes[n].parent].scope].definitions = Append(@, d)]
                      EXCEPT ![owner].variables =
                        IF parentType # "IMPORT" /\ definition.kind # "function"
                        THEN Append(@, d) ELSE @],
        !.glob = IF parentType = "IMPORT"
                 THEN [@ EXCEPT !.imports[definition.kind] = Append(@, d)]
                 ELSE IF definition.kind = "function"
                 THEN [@ EXCEPT !.functions = Append(@, d)]
                 ELSE @]

\* signed is what functionSignatureIndex returned: the tables and the index.
registerSigned(signed, n, spec, definition, body, isFnPtr, mutable, paramTypes, returnType) ==
  register(signed.h, n, spec,
           functionFields(definition, body, isFnPtr, mutable, paramTypes, returnType,
                          signed.index))

\* define from the definition object literal on.
defineSpec(h, n, spec, mutable, token) ==
  LET ASType == h.nodes[spec].ASType
      scope == h.nodes[spec].scope
      definition == [noDefinition EXCEPT
                       !.index = 0, !.ASType = ASType, !.isGlobal = h.scopes[scope].isGlobal,
                       !.kind = "global", !.mutable = mutable, !.name = token.text,
                       !.chars = token.chars, !.runType = h.nodes[spec].token.text,
                       !.scope = scope]
      paramList == h.nodes[h.nodes[spec].children[1]].children
      paramTypes == [i \in 1..Len(paramList) |->
                       IF ASType = "FN" THEN h.defs[h.nodes[paramList[i]].meta.definition].runType
                       ELSE h.nodes[paramList[i]].token.text]
      returnType == h.nodes[h.nodes[spec].children[2]].token.text
      body == IF Len(h.nodes[spec].children) >= 3 THEN h.nodes[spec].children[3] ELSE 0
      storageType == h.nodes[h.nodes[spec].children[1]].token.text
  IN IF ASType \in {"FN", "FN_SIGNATURE", "FN_PTR"}
     THEN registerSigned(functionSignatureIndex(h, paramTypes, returnType), n, spec,
                         definition, body, ASType = "FN_PTR", mutable, paramTypes, returnType)
     ELSE IF ASType = "PTR"
     THEN register(h, n, spec,
                   pointerFields(definition, storageTypeSplitter(storageType), storageType))
     ELSE register(h, n, spec, definition)

define(h, n) ==
  LET parentType == h.nodes[h.nodes[n].parent].ASType
      given == h.nodes[n].children[2]
      immutable == h.nodes[given].ASType = "IMMUTABLE"
      spec == IF immutable THEN h.nodes[given].children[1] ELSE given
  IN IF h.thrown # NoError THEN h
     ELSE IF h.nodes[spec].ASType = "FN" /\ parentType # "ROOT"
     THEN Throw(h, CompileError("Bad Placement for Function Definition"))
     ELSE defineSpec(h, n, spec, parentType # "IMPORT" /\ ~immutable,
                     h.nodes[h.nodes[n].children[1]].token)

defineMemory(h, n) ==
  IF h.thrown # NoError THEN h
  ELSE IF Len(h.glob.defaultMemory) # 0
  THEN Throw(h, CompileError("Duplicate Default Memory Definition"))
  ELSE LET d == Len(h.defs) + 1
       IN [h EXCEPT
            !.defs = Append(@, [noDefinition EXCEPT
                                  !.index = 0, !.ASType = "DEFAULT_MEMORY", !.kind = "memory",
                                  !.initialSize = h.nodes[n].children[1],
                                  !.maxSize = h.nodes[n].children[2]]),
            !.glob.defaultMemory = Append(@, d),
            !.nodes[n].meta = [kind |-> "definition", definition |-> d]]

defineTable(h, n) ==
  IF h.thrown # NoError THEN h
  ELSE IF Len(h.glob.defaultTable) # 0
  THEN Throw(h, CompileError("Duplicate Default Table Definition"))
  ELSE LET d == Len(h.defs) + 1
       IN [h EXCEPT
            !.defs = Append(@, [noDefinition EXCEPT
                                  !.index = 0, !.ASType = "DEFAULT_TABLE", !.kind = "table",
                                  !.initialSize = h.nodes[n].children[1],
                                  !.maxSize = h.nodes[n].children[2]]),
            !.glob.defaultTable = Append(@, d),
            !.nodes[n].meta = [kind |-> "definition", definition |-> d]]

ChildTypes(h, n) == [i \in 1..Len(h.nodes[n].children) |-> h.nodes[h.nodes[n].children[i]].ASType]

\* The switch of place: what the node defines or refers to.
placeByType(h, n) ==
  LET ASType == h.nodes[n].ASType
  IN IF ASType \in {"DEFINITION", "DECLARATION"} THEN define(h, n)
     ELSE IF ASType = "DEFAULT_MEMORY" THEN defineMemory(h, n)
     ELSE IF ASType = "DEFAULT_TABLE" THEN defineTable(h, n)
     ELSE IF isReference(ASType) /\ ~createsName(h.nodes[h.nodes[n].parent].ASType)
     THEN [h EXCEPT !.scopes[h.nodes[n].scope].references = Append(@, n)]
     ELSE h

\* node.parent.children.push(node)
pushChild(h, parent, n) ==
  IF h.thrown # NoError THEN h ELSE [h EXCEPT !.nodes[parent].children = Append(@, n)]

\* Returns the tables; the caller moves to the parent.
place(h, n) ==
  LET ASType == h.nodes[n].ASType
      parent == h.nodes[n].parent
      violation == CTC(ASType, ChildTypes(h, n))
  IN IF h.thrown # NoError THEN h
     ELSE IF violation = "TypeError"
     THEN Throw(h, TypeError("node.children[i] is undefined"))
     ELSE IF violation # "null"
     THEN Throw(h, CompileError("Unintelligible Syntax (Child Type Constraint Violation)"))
     ELSE IF PTC(ASType, h.nodes[parent].ASType, Len(h.nodes[parent].children))
     THEN Throw(h, CompileError("Unintelligible Syntax (Parent Type Constraint Violation)"))
     ELSE pushChild(placeByType(h, n), parent, n)

\* shouldReparent with >= for every operator: equal precedence always
\* reparents.
shouldReparentOnEqual(leftType, rightType) ==
  IF leftOperands(rightType) = 0 THEN FALSE
  ELSE precedence(rightType) >= precedence(leftType)

\* shouldReparent(leftNode, rightToken): the token takes the completed node
\* as its left operand if it binds tighter than the node's parent.
shouldReparent(leftType, rightType) ==
  IF leftOperands(rightType) = 0 THEN FALSE
  ELSE IF rightAssociative(rightType) THEN precedence(rightType) >= precedence(leftType)
  ELSE precedence(rightType) > precedence(leftType)

\* The properties any object made by a spread ({...scope.names}) inherits
\* from Object.prototype; the global scope's names has no prototype.
ObjectPrototype ==
  {"constructor", "toString", "toLocaleString", "valueOf", "hasOwnProperty", "isPrototypeOf",
   "propertyIsEnumerable", "__proto__", "__defineGetter__", "__defineSetter__",
   "__lookupGetter__", "__lookupSetter__"}

\* scope.names[name]: a definition, 0 for undefined, -1 for an inherited
\* member of Object.prototype.
lookup(h, scope, name) ==
  IF name \in DOMAIN h.scopes[scope].names THEN h.scopes[scope].names[name]
  ELSE IF ~h.scopes[scope].isGlobal /\ name \in ObjectPrototype THEN -1
  ELSE 0

\* The object node.meta refers to, as far as its properties are read: a
\* definition, or an object that has none of them.
Referent(h, n) ==
  IF h.nodes[n].meta.kind = "definition" THEN h.defs[h.nodes[n].meta.definition]
  ELSE noDefinition

enforceReferenceSemantics(h, reference) ==
  LET refType == Referent(h, reference).ASType
      ASType == h.nodes[reference].ASType
  IN IF h.thrown # NoError THEN h
     ELSE IF h.nodes[h.nodes[reference].parent].ASType \in {"EXPORT", "AS"} THEN h
     ELSE IF ASType = "VARIABLE" /\ refType \in {"FN", "FN_SIGNATURE"}
     THEN Throw(h, CompileError("Bad Reference: Not a Variable"))
     ELSE IF ASType = "CALL" /\ refType \notin {"FN", "FN_SIGNATURE", "FN_PTR"}
     THEN Throw(h, CompileError("Bad Reference: Not a Function"))
     ELSE IF ASType = "MEMORY_ACCESS" /\ refType # "PTR"
     THEN Throw(h, CompileError("Bad Reference: Not a Pointer"))
     ELSE h

RECURSIVE resolveDefinitions(_, _, _)
resolveDefinitions(h, scope, i) ==
  LET definition == h.scopes[scope].definitions[i]
      name == h.defs[definition].name
      names == h.scopes[scope].names
  IN IF h.thrown # NoError \/ i > Len(h.scopes[scope].definitions) THEN h
     ELSE IF lookup(h, scope, name) # 0 THEN Throw(h, CompileError("Duplicate Definition"))
     ELSE resolveDefinitions(
            [h EXCEPT !.scopes[scope].names =
               [k \in DOMAIN names \cup {name} |-> IF k = name THEN definition ELSE names[k]]],
            scope, i + 1)

RECURSIVE resolveReferences(_, _, _)
resolveReferences(h, scope, i) ==
  LET reference == h.scopes[scope].references[i]
      found == lookup(h, scope, h.nodes[reference].token.text)
      bound == [h EXCEPT !.nodes[reference].meta =
                  IF found = -1 THEN [kind |-> "prototype"]
                  ELSE [kind |-> "definition", definition |-> found]]
  IN IF h.thrown # NoError \/ i > Len(h.scopes[scope].references) THEN h
     ELSE IF found = 0 THEN Throw(h, CompileError("Unresolvable Reference"))
     ELSE resolveReferences(enforceReferenceSemantics(bound, reference), scope, i + 1)

RECURSIVE resolve(_, _)
RECURSIVE resolveChildren(_, _, _)
resolveChildren(h, scope, i) ==
  LET child == h.scopes[scope].children[i]
  IN IF h.thrown # NoError \/ i > Len(h.scopes[scope].children) THEN h
     ELSE resolveChildren(
            resolve([h EXCEPT !.scopes[child].names = h.scopes[scope].names], child),
            scope, i + 1)

resolve(h, scope) ==
  resolveChildren(resolveReferences(resolveDefinitions(h, scope, 1), scope, 1), scope, 1)

(***************************************************************************)
(* parse(tokens): one action for each way an iteration of the main loop     *)
(* goes.  index counts from 1.                                              *)
(***************************************************************************)
EmptyHeap == [nodes |-> << >>, scopes |-> << >>, defs |-> << >>, glob |-> << >>, thrown |-> NoError]

\* Leaves the tables as h has them; an exception in flight ends the pipeline.
Commit(h, next) ==
  /\ nodes' = h.nodes
  /\ scopes' = h.scopes
  /\ defs' = h.defs
  /\ glob' = h.glob
  /\ err' = h.thrown
  /\ pc' = IF h.thrown = NoError THEN next ELSE "failed"

InLoop == pc = "loop" /\ index <= Len(tokens)

\* if (token.ASType.skip) continue;
parseSkip ==
  /\ InLoop
  /\ skip(tokens[index].ASType)
  /\ index' = index + 1
  /\ UNCHANGED <<pc, runs, seen, source, lastIndex, tokens, node, nodes, scopes, defs, glob, err, bc, byteView, out>>
  /\ UNCHANGED lebVars

\* if (token.ASType === BAD_TOKEN) throw
parseBadToken ==
  /\ InLoop
  /\ tokens[index].ASType = "BAD_TOKEN"
  /\ Commit(Throw(Heap, CompileError("Mysterious Symbol")), "loop")
  /\ UNCHANGED <<runs, seen, source, lastIndex, tokens, index, node, bc, byteView, out>>
  /\ UNCHANGED lebVars

Examined == InLoop /\ ~skip(tokens[index].ASType) /\ tokens[index].ASType # "BAD_TOKEN"

\* The node left under the parent it had.
adoptLeaving(created, n) == created

\* if (node.complete): the node is placed, under the token's new node if the
\* token claims it.
\* token.ASType = getASType(token.ASType, node.parent.ASType);
\* node = node.parent = createASTNode(token, node.parent): the new node
\* adopts node n, whose place it takes.
adopt(created, n) == [created EXCEPT !.nodes[n].parent = Len(created.nodes)]

\* The parent never marked complete by the child that fills it.
completeIfFullNever(h, up) == h

\* if (node.children.length === node.ASType.expectedChildCount) node.complete = true
completeIfFull(h, up) ==
  IF h.thrown = NoError /\ Len(h.nodes[up].children) = expectedChildCount(h.nodes[up].ASType)
  THEN [h EXCEPT !.nodes[up].complete = TRUE]
  ELSE h

\* place(node); node = node.parent; and the test for completeness
placeAndAscend(h, n) == completeIfFull(place(h, n), h.nodes[n].parent)

\* The tables and the variables of the loop after a completed node was
\* placed.
Placed(h, reparent) ==
  /\ Commit(h, "loop")
  /\ index' = IF reparent THEN index + 1 ELSE index
  /\ node' = IF h.thrown = NoError THEN h.nodes[node].parent ELSE node

parsePlace ==
  /\ Examined
  /\ nodes[node].complete
  /\ LET token == tokens[index]
         parent == nodes[node].parent
         reparent == shouldReparent(nodes[parent].ASType, token.ASType)
     IN IF parent = 0
        THEN /\ Commit(Throw(Heap, TypeError("node.parent is null")), "loop")
             /\ UNCHANGED <<index, node>>
        ELSE IF reparent
        THEN Placed(placeAndAscend(
                      adopt(createASTNode(Heap, token, parent,
                                          getASType(token.ASType, nodes[parent].ASType)),
                            node),
                      node), TRUE)
        ELSE Placed(placeAndAscend(Heap, node), FALSE)
  /\ UNCHANGED <<runs, seen, source, lastIndex, tokens, bc, byteView, out>>
  /\ UNCHANGED lebVars

\* The terminator after a return without a child left where it is, and the
\* return as it is.
parseTerminatorLeavingReturn ==
  /\ Examined
  /\ ~nodes[node].complete
  /\ isTerminator(tokens[index].ASType)
  /\ LET token == tokens[index]
         ASType == nodes[node].ASType
     IN IF requiresTerminator(ASType) = token.ASType
        THEN /\ Commit([Heap EXCEPT !.nodes[node].complete = TRUE], "loop")
             /\ index' = index + 1
        ELSE IF ASType = "RETURN"
        THEN /\ Commit(Heap, "loop")
             /\ index' = index
        ELSE IF ignoresTerminator(ASType) # token.ASType
        THEN /\ Commit(Throw(Heap, CompileError("Misplaced Terminator or Unfinished Expression")),
                       "loop")
             /\ index' = index
        ELSE /\ Commit(Heap, "loop")
             /\ index' = index + 1
  /\ UNCHANGED <<runs, seen, source, lastIndex, tokens, node, bc, byteView, out>>
  /\ UNCHANGED lebVars

\* else if (token.ASType.isTerminator)
parseTerminator ==
  /\ Examined
  /\ ~nodes[node].complete
  /\ isTerminator(tokens[index].ASType)
  /\ LET token == tokens[index]
         ASType == nodes[node].ASType
     IN IF requiresTerminator(ASType) = token.ASType
        THEN /\ Commit([Heap EXCEPT !.nodes[node].complete = TRUE], "loop")
             /\ index' = index + 1
        ELSE IF ASType = "RETURN"
        THEN /\ Commit([Heap EXCEPT !.nodes[node].complete = TRUE], "loop")
             /\ index' = index
        ELSE IF ignoresTerminator(ASType) # token.ASType
        THEN /\ Commit(Throw(Heap, CompileError("Misplaced Terminator or Unfinished Expression")),
                       "loop")
             /\ index' = index
        ELSE /\ Commit(Heap, "loop")
             /\ index' = index + 1
  /\ UNCHANGED <<runs, seen, source, lastIndex, tokens, node, bc, byteView, out>>
  /\ UNCHANGED lebVars

\* else if (token.ASType.leftOperands !== 0)
parseLeftOperand ==
  /\ Examined
  /\ ~nodes[node].complete
  /\ ~isTerminator(tokens[index].ASType)
  /\ leftOperands(tokens[index].ASType) # 0
  /\ IF tokens[index].ASType = "SUB"
     THEN LET h == createASTNode(Heap, tokens[index], node, "NEG")
          IN /\ Commit(h, "loop")
             /\ node' = Len(h.nodes)
             /\ index' = index + 1
     ELSE /\ Commit(Throw(Heap, CompileError("Unfinished Expression")), "loop")
          /\ UNCHANGED <<node, index>>
  /\ UNCHANGED <<runs, seen, source, lastIndex, tokens, bc, byteView, out>>
  /\ UNCHANGED lebVars

\* else: the token becomes a child the current node will try to accept.
parseChild ==
  /\ Examined
  /\ ~nodes[node].complete
  /\ ~isTerminator(tokens[index].ASType)
  /\ leftOperands(tokens[index].ASType) = 0
  /\ LET h == createASTNode(Heap, tokens[index], node,
                            getASType(tokens[index].ASType, nodes[node].ASType))
     IN /\ Commit(h, "loop")
        /\ node' = Len(h.nodes)
        /\ index' = index + 1
  /\ UNCHANGED <<runs, seen, source, lastIndex, tokens, bc, byteView, out>>
  /\ UNCHANGED lebVars

\* After the loop: ROOT.CTC(root).
parseRoot ==
  /\ pc = "loop"
  /\ index > Len(tokens)
  /\ Commit(IF CTC("ROOT", ChildTypes(Heap, 1)) # "null"
            THEN Throw(Heap, CompileError("Unintelligible Syntax (Child Type Constraint Violation)"))
            ELSE Heap, "resolve")
  /\ UNCHANGED <<runs, seen, source, lastIndex, tokens, index, node, bc, byteView, out>>
  /\ UNCHANGED lebVars

(***************************************************************************)
(* /compiler/lexer.js.  A string is the sequence of its UTF-16 code units.  *)
(* A token keeps its text twice: chars, the code units, and text, the same  *)
(* characters as a string, which is what the parser and the validator use   *)
(* to look keywords, operators, type names and identifiers up.              *)
(***************************************************************************)
printable ==
  << " ", "!", "\"", "#", "$", "%", "&", "'", "(", ")", "*", "+", ",", "-", ".", "/",
     "0", "1", "2", "3", "4", "5", "6", "7", "8", "9", ":", ";", "<", "=", ">", "?",
     "@", "A", "B", "C", "D", "E", "F", "G", "H", "I", "J", "K", "L", "M", "N", "O",
     "P", "Q", "R", "S", "T", "U", "V", "W", "X", "Y", "Z", "[", "\\", "]", "^", "_",
     "?", "a", "b", "c", "d", "e", "f", "g", "h", "i", "j", "k", "l", "m", "n", "o",
     "p", "q", "r", "s", "t", "u", "v", "w", "x", "y", "z", "{", "|", "}", "~" >>

\* String.fromCharCode, exact on the printable ASCII characters but the grave
\* accent, on tab and on the line breaks; "?" stands for any other code unit.
fromCharCode(c) ==
  IF c \in 32..126 THEN printable[c - 31]
  ELSE IF c = 9 THEN "\t" ELSE IF c = 10 THEN "\n" ELSE IF c = 13 THEN "\r" ELSE "?"

RECURSIVE textOf(_)
textOf(chars) ==
  IF chars = << >> THEN ""
  ELSE IF Len(chars) = 1 THEN fromCharCode(chars[1])
  ELSE textOf(SubSeq(chars, 1, Len(chars) \div 2))
       \o textOf(SubSeq(chars, Len(chars) \div 2 + 1, Len(chars)))

\* The character classes \w, \d, \s and the line terminators "." excludes.
isWord(c) == c \in (48..57) \cup (65..90) \cup (97..122) \cup {95}
isDigit(c) == c \in 48..57
isSpace(c) ==
  c \in {9, 10, 11, 12, 13, 32, 160, 5760, 8232, 8233, 8239, 8287, 12288, 65279} \cup (8192..8202)

\* The patterns of lexerData, in order.  A "words" pattern is its literal
\* alternatives in the order the regular expression tries them; boundary is
\* the (?!\w) lookahead.
lexerData ==
  << [ASType |-> "WS", rule |-> "space", alternatives |-> << >>],
     \* == !=
     [ASType |-> "EQ_COMPARISON", rule |-> "words", alternatives |->
        << [word |-> <<61, 61>>, boundary |-> FALSE],
           [word |-> <<33, 61>>, boundary |-> FALSE] >>],
     \* =
     [ASType |-> "ASSIGN", rule |-> "words", alternatives |->
        << [word |-> <<61>>, boundary |-> FALSE] >>],
     [ASType |-> "COMMENT", rule |-> "comment", alternatives |-> << >>],
     \* >>> >> << rotate_right rotate_left
     [ASType |-> "BITWISE_SHIFT", rule |-> "words", alternatives |->
        << [word |-> <<62, 62, 62>>, boundary |-> FALSE],
           [word |-> <<62, 62>>, boundary |-> FALSE],
           [word |-> <<60, 60>>, boundary |-> FALSE],
           [word |-> <<114, 111, 116, 97, 116, 101, 95, 114, 105, 103, 104, 116>>, boundary |-> TRUE],
           [word |-> <<114, 111, 116, 97, 116, 101, 95, 108, 101, 102, 116>>, boundary |-> TRUE] >>],
     \* >= > <= < |>=| |>| |<=| |<|
     [ASType |-> "ORDER_COMPARISON", rule |-> "words", alternatives |->
        << [word |-> <<62, 61>>, boundary |-> FALSE],
           [word |-> <<62>>, boundary |-> FALSE],
           [word |-> <<60, 61>>, boundary |-> FALSE],
           [word |-> <<60>>, boundary |-> FALSE],
           [word |-> <<124, 62, 61, 124>>, boundary |-> FALSE],
           [word |-> <<124, 62, 124>>, boundary |-> FALSE],
           [word |-> <<124, 60, 61, 124>>, boundary |-> FALSE],
           [word |-> <<124, 60, 124>>, boundary |-> FALSE] >>],
     \* * / |/| % |%|
     [ASType |-> "SCALE_OP", rule |-> "words", alternatives |->
        << [word |-> <<42>>, boundary |-> FALSE],
           [word |-> <<47>>, boundary |-> FALSE],
           [word |-> <<124, 47, 124>>, boundary |-> FALSE],
           [word |-> <<37>>, boundary |-> FALSE],
           [word |-> <<124, 37, 124>>, boundary |-> FALSE] >>],
     \* |
     [ASType |-> "BITWISE_OR", rule |-> "words", alternatives |->
        << [word |-> <<124>>, boundary |-> FALSE] >>],
     \* i32_s8 i32_s16 i32_u8 i32_u16 i64_s8 i64_s16 i64_u8 i64_u16 i64_s32 i64_u32
     [ASType |-> "STORAGE_TYPE", rule |-> "words", alternatives |->
        << [word |-> <<105, 51, 50, 95, 115, 56>>, boundary |-> TRUE],
           [word |-> <<105, 51, 50, 95, 115, 49, 54>>, boundary |-> TRUE],
           [word |-> <<105, 51, 50, 95, 117, 56>>, boundary |-> TRUE],
           [word |-> <<105, 51, 50, 95, 117, 49, 54>>, boundary |-> TRUE],
           [word |-> <<105, 54, 52, 95, 115, 56>>, boundary |-> TRUE],
           [word |-> <<105, 54, 52, 95, 115, 49, 54>>, boundary |-> TRUE],
           [word |-> <<105, 54, 52, 95, 117, 56>>, boundary |-> TRUE],
           [word |-> <<105, 54, 52, 95, 117, 49, 54>>, boundary |-> TRUE],
           [word |-> <<105, 54, 52, 95, 115, 51, 50>>, boundary |-> TRUE],
           [word |-> <<105, 54, 52, 95, 117, 51, 50>>, boundary |-> TRUE] >>],
     \* i32 i64 f32 f64
     [ASType |-> "VALUE_TYPE", rule |-> "words", alternatives |->
        << [word |-> <<105, 51, 50>>, boundary |-> TRUE],
           [word |-> <<105, 54, 52>>, boundary |-> TRUE],
           [word |-> <<102, 51, 50>>, boundary |-> TRUE],
           [word |-> <<102, 54, 52>>, boundary |-> TRUE] >>],
     [ASType |-> "F64_LITERAL", rule |-> "f64", alternatives |-> << >>],
     [ASType |-> "F32_LITERAL", rule |-> "f32", alternatives |-> << >>],
     [ASType |-> "I64_LITERAL", rule |-> "i64", alternatives |-> << >>],
     [ASType |-> "I32_LITERAL", rule |-> "i32", alternatives |-> << >>],
     \* ++ --
     [ASType |-> "SUFFIX_OP", rule |-> "words", alternatives |->
        << [word |-> <<43, 43>>, boundary |-> FALSE],
           [word |-> <<45, 45>>, boundary |-> FALSE] >>],
     \* +
     [ASType |-> "ADD", rule |-> "words", alternatives |->
        << [word |-> <<43>>, boundary |-> FALSE] >>],
     \* -
     [ASType |-> "SUB", rule |-> "words", alternatives |->
        << [word |-> <<45>>, boundary |-> FALSE] >>],
     \* [
     [ASType |-> "ADDRESS", rule |-> "words", alternatives |->
        << [word |-> <<91>>, boundary |-> FALSE] >>],
     \* ]
     [ASType |-> "ADDRESS_CLOSE", rule |-> "words", alternatives |->
        << [word |-> <<93>>, boundary |-> FALSE] >>],
     \* allocate_pages
     [ASType |-> "ALLOCATE_PAGES", rule |-> "words", alternatives |->
        << [word |-> <<97, 108, 108, 111, 99, 97, 116, 101, 95, 112, 97, 103, 101, 115>>, boundary |-> TRUE] >>],
     \* and
     [ASType |-> "AND", rule |-> "words", alternatives |->
        << [word |-> <<97, 110, 100>>, boundary |-> TRUE] >>],
     \* as
     [ASType |-> "AS", rule |-> "words", alternatives |->
        << [word |-> <<97, 115>>, boundary |-> TRUE] >>],
     \* &
     [ASType |-> "BITWISE_AND", rule |-> "words", alternatives |->
        << [word |-> <<38>>, boundary |-> FALSE] >>],
     \* xor
     [ASType |-> "BITWISE_XOR", rule |-> "words", alternatives |->
        << [word |-> <<120, 111, 114>>, boundary |-> TRUE] >>],
     \* {
     [ASType |-> "BLOCK", rule |-> "words", alternatives |->
        << [word |-> <<123>>, boundary |-> FALSE] >>],
     \* }
     [ASType |-> "BLOCK_CLOSE", rule |-> "words", alternatives |->
        << [word |-> <<125>>, boundary |-> FALSE] >>],
     \* break
     [ASType |-> "BREAK", rule |-> "words", alternatives |->
        << [word |-> <<98, 114, 101, 97, 107>>, boundary |-> TRUE] >>],
     \* ,
     [ASType |-> "COMMA", rule |-> "words", alternatives |->
        << [word |-> <<44>>, boundary |-> FALSE] >>],
     \* continue
     [ASType |-> "CONTINUE", rule |-> "words", alternatives |->
        << [word |-> <<99, 111, 110, 116, 105, 110, 117, 101>>, boundary |-> TRUE] >>],
     \* default_memory
     [ASType |-> "DEFAULT_MEMORY", rule |-> "words", alternatives |->
        << [word |-> <<100, 101, 102, 97, 117, 108, 116, 95, 109, 101, 109, 111, 114, 121>>, boundary |-> TRUE] >>],
     \* default_table
     [ASType |-> "DEFAULT_TABLE", rule |-> "words", alternatives |->
        << [word |-> <<100, 101, 102, 97, 117, 108, 116, 95, 116, 97, 98, 108, 101>>, boundary |-> TRUE] >>],
     \* :
     [ASType |-> "DEFINITION", rule |-> "words", alternatives |->
        << [word |-> <<58>>, boundary |-> FALSE] >>],
     \* else
     [ASType |-> "ELSE", rule |-> "words", alternatives |->
        << [word |-> <<101, 108, 115, 101>>, boundary |-> TRUE] >>],
     \* export
     [ASType |-> "EXPORT", rule |-> "words", alternatives |->
        << [word |-> <<101, 120, 112, 111, 114, 116>>, boundary |-> TRUE] >>],
     \* fn
     [ASType |-> "FN", rule |-> "words", alternatives |->
        << [word |-> <<102, 110>>, boundary |-> TRUE] >>],
     \* fn_ptr
     [ASType |-> "FN_PTR", rule |-> "words", alternatives |->
        << [word |-> <<102, 110, 95, 112, 116, 114>>, boundary |-> TRUE] >>],
     \* from
     [ASType |-> "FROM", rule |-> "words", alternatives |->
        << [word |-> <<102, 114, 111, 109>>, boundary |-> TRUE] >>],
     \* if
     [ASType |-> "IF", rule |-> "words", alternatives |->
        << [word |-> <<105, 102>>, boundary |-> TRUE] >>],
     \* immutable
     [ASType |-> "IMMUTABLE", rule |-> "words", alternatives |->
        << [word |-> <<105, 109, 109, 117, 116, 97, 98, 108, 101>>, boundary |-> TRUE] >>],
     \* import
     [ASType |-> "IMPORT", rule |-> "words", alternatives |->
        << [word |-> <<105, 109, 112, 111, 114, 116>>, boundary |-> TRUE] >>],
     \* loop
     [ASType |-> "LOOP", rule |-> "words", alternatives |->
        << [word |-> <<108, 111, 111, 112>>, boundary |-> TRUE] >>],
     \* ?> ?< with_sign_of
     [ASType |-> "MISC_INFIX", rule |-> "words", alternatives |->
        << [word |-> <<63, 62>>, boundary |-> FALSE],
           [word |-> <<63, 60>>, boundary |-> FALSE],
           [word |-> <<119, 105, 116, 104, 95, 115, 105, 103, 110, 95, 111, 102>>, boundary |-> TRUE] >>],
     \* void
     [ASType |-> "VOID", rule |-> "words", alternatives |->
        << [word |-> <<118, 111, 105, 100>>, boundary |-> TRUE] >>],
     \* or
     [ASType |-> "OR", rule |-> "words", alternatives |->
        << [word |-> <<111, 114>>, boundary |-> TRUE] >>],
     \* pages_allocated
     [ASType |-> "PAGES_ALLOCATED", rule |-> "words", alternatives |->
        << [word |-> <<112, 97, 103, 101, 115, 95, 97, 108, 108, 111, 99, 97, 116, 101, 100>>, boundary |-> TRUE] >>],
     \* (
     [ASType |-> "PAREN", rule |-> "words", alternatives |->
        << [word |-> <<40>>, boundary |-> FALSE] >>],
     \* )
     [ASType |-> "PAREN_CLOSE", rule |-> "words", alternatives |->
        << [word |-> <<41>>, boundary |-> FALSE] >>],
     \* ptr
     [ASType |-> "PTR", rule |-> "words", alternatives |->
        << [word |-> <<112, 116, 114>>, boundary |-> TRUE] >>],
     \* return
     [ASType |-> "RETURN", rule |-> "words", alternatives |->
        << [word |-> <<114, 101, 116, 117, 114, 110>>, boundary |-> TRUE] >>],
     \* ;
     [ASType |-> "SEMICOLON", rule |-> "words", alternatives |->
        << [word |-> <<59>>, boundary |-> FALSE] >>],
     [ASType |-> "STRING", rule |-> "string", alternatives |-> << >>],
     \* abs ceil count_ones floor leading_zeros round sqrt trailing_zeros truncate to_i32 to_i64 to_f32 to_f64 cast_i32 cast_i64 cast_f32 cast_f64 !
     [ASType |-> "UNARY_MATH_OP", rule |-> "words", alternatives |->
        << [word |-> <<97, 98, 115>>, boundary |-> TRUE],
           [word |-> <<99, 101, 105, 108>>, boundary |-> TRUE],
           [word |-> <<99, 111, 117, 110, 116, 95, 111, 110, 101, 115>>, boundary |-> TRUE],
           [word |-> <<102, 108, 111, 111, 114>>, boundary |-> TRUE],
           [word |-> <<108, 101, 97, 100, 105, 110, 103, 95, 122, 101, 114, 111, 115>>, boundary |-> TRUE],
           [word |-> <<114, 111, 117, 110, 100>>, boundary |-> TRUE],
           [word |-> <<115, 113, 114, 116>>, boundary |-> TRUE],
           [word |-> <<116, 114, 97, 105, 108, 105, 110, 103, 95, 122, 101, 114, 111, 115>>, boundary |-> TRUE],
           [word |-> <<116, 114, 117, 110, 99, 97, 116, 101>>, boundary |-> TRUE],
           [word |-> <<116, 111, 95, 105, 51, 50>>, boundary |-> TRUE],
           [word |-> <<116, 111, 95, 105, 54, 52>>, boundary |-> TRUE],
           [word |-> <<116, 111, 95, 102, 51, 50>>, boundary |-> TRUE],
           [word |-> <<116, 111, 95, 102, 54, 52>>, boundary |-> TRUE],
           [word |-> <<99, 97, 115, 116, 95, 105, 51, 50>>, boundary |-> TRUE],
           [word |-> <<99, 97, 115, 116, 95, 105, 54, 52>>, boundary |-> TRUE],
           [word |-> <<99, 97, 115, 116, 95, 102, 51, 50>>, boundary |-> TRUE],
           [word |-> <<99, 97, 115, 116, 95, 102, 54, 52>>, boundary |-> TRUE],
           [word |-> <<33>>, boundary |-> FALSE] >>],
     \* yield
     [ASType |-> "YIELD", rule |-> "words", alternatives |->
        << [word |-> <<121, 105, 101, 108, 100>>, boundary |-> TRUE] >>],
     [ASType |-> "CALL", rule |-> "call", alternatives |-> << >>],
     [ASType |-> "MEMORY_ACCESS", rule |-> "memory_access", alternatives |-> << >>],
     [ASType |-> "VARIABLE", rule |-> "variable", alternatives |-> << >>],
     [ASType |-> "BAD_TOKEN", rule |-> "any", alternatives |-> << >>] >>

\* The position after the longest run, from i, of code units in the class.
RunEnd(text, i, class) ==
  LET ends == { j \in i..(Len(text) + 1) :
                  ~ \/ (class = "word" /\ isWord(At(text, j)))
                    \/ (class = "digit" /\ isDigit(At(text, j)))
                    \/ (class = "line" /\ At(text, j) # -1 /\ At(text, j) # 10) }
  IN IF i > Len(text) THEN i ELSE CHOOSE j \in ends : \A k \in ends : j <= k

\* The position after the longest match, from i, of (?:[^stops\\]|\\.)*:
\* the first unit that is an unescaped stop, or a backslash that neither
\* escapes nor is escaped, or the end of the text.
BodyEnd(text, i, stops) ==
  LET ends == { j \in i..(Len(text) + 1) :
                  \/ j = Len(text) + 1
                  \/ text[j] \in stops /\ ~Escaped(text, i, j)
                  \/ text[j] = 92 /\ ~Escaping(text, i, j) /\ ~Escaped(text, i, j) }
  IN IF i > Len(text) THEN i ELSE CHOOSE j \in ends : \A k \in ends : j <= k

\* The position after the body of a string literal scanned from i:
\* (?:[^"\\]|\\.)*
StringBodyEnd(text, i) == BodyEnd(text, i, {34})

HasAt(text, i, word) == \A k \in 1..Len(word) : At(text, i + k - 1) = word[k]

\* The alternatives of a "words" pattern that match at position i.
WordsAt(alternatives, text, i) ==
  { a \in 1..Len(alternatives) :
      /\ HasAt(text, i, alternatives[a].word)
      /\ alternatives[a].boundary => ~isWord(At(text, i + Len(alternatives[a].word))) }

\* A "words" pattern: the first alternative that matches decides.
MatchWords(alternatives, text, i) ==
  IF WordsAt(alternatives, text, i) = {} THEN 0
  ELSE Len(alternatives[CHOOSE a \in WordsAt(alternatives, text, i) :
                          \A b \in WordsAt(alternatives, text, i) : a <= b].word)

\* \d+<suffix> or, with optional, \d+(?:<suffix>)?, digits being the end of
\* the run of digits from i.
MatchInteger(text, i, digits, suffix, optional) ==
  IF digits = i THEN 0
  ELSE IF HasAt(text, digits, suffix) THEN digits + 3 - i
  ELSE IF optional THEN digits - i
  ELSE 0

\* \d+\.\d+ followed by the suffix, fraction being the end of the run of
\* digits after the point at digits.
MatchFraction(text, i, digits, fraction, suffix, optional) ==
  IF digits = i \/ At(text, digits) # 46 \/ fraction = digits + 1 THEN 0
  ELSE IF HasAt(text, fraction, suffix) THEN fraction + 3 - i
  ELSE IF optional THEN fraction - i
  ELSE 0

MatchFloat(text, i, digits, suffix, optional) ==
  MatchFraction(text, i, digits, RunEnd(text, digits + 1, "digit"), suffix, optional)

\* "(?:[^"\\]|\\.)*", closing being the position after the body.
MatchString(text, i, closing) ==
  IF At(text, i) = 34 /\ At(text, closing) = 34 THEN closing + 1 - i ELSE 0

\* \w+(?=<next>), word being the end of the run of word characters from i.
MatchBefore(text, i, word, next) ==
  IF word > i /\ At(text, word) = next THEN word - i ELSE 0

\* The length of the match of one pattern at position i; 0 if it fails (no
\* pattern matches the empty string).
MatchLength(entry, text, i) ==
  CASE entry.rule = "words" -> MatchWords(entry.alternatives, text, i)
    [] entry.rule = "space" -> IF isSpace(At(text, i)) THEN 1 ELSE 0
    [] entry.rule = "comment" ->
         IF HasAt(text, i, <<47, 47>>) THEN RunEnd(text, i + 2, "line") - i ELSE 0
    [] entry.rule = "f64" ->
         MatchFloat(text, i, RunEnd(text, i, "digit"), <<120, 54, 52>>, FALSE)
    [] entry.rule = "f32" ->
         MatchFloat(text, i, RunEnd(text, i, "digit"), <<120, 51, 50>>, TRUE)
    [] entry.rule = "i64" ->
         MatchInteger(text, i, RunEnd(text, i, "digit"), <<120, 54, 52>>, FALSE)
    [] entry.rule = "i32" ->
         MatchInteger(text, i, RunEnd(text, i, "digit"), <<120, 51, 50>>, TRUE)
    [] entry.rule = "string" -> MatchString(text, i, StringBodyEnd(text, i + 1))
    [] entry.rule = "call" -> MatchBefore(text, i, RunEnd(text, i, "word"), 40)
    [] entry.rule = "memory_access" -> MatchBefore(text, i, RunEnd(text, i, "word"), 91)
    [] entry.rule = "variable" -> RunEnd(text, i, "word") - i
    [] entry.rule = "any" ->
         IF At(text, i) # -1 /\ ~isLineTerminator(At(text, i)) THEN 1 ELSE 0

\* The lengths of the matches of the patterns of a table at position at
\* (from 0), in order.
MatchLengths(table, text, at) ==
  [e \in 1..Len(table) |-> MatchLength(table[e], text, at + 1)]

\* The result of exec for the lengths of the matches at position at: the
\* first group that matched; "null" if none did.  length is
\* result[0].length and index is result.index.
Result(table, lengths, at) ==
  IF \A e \in 1..Len(lengths) : lengths[e] = 0
  THEN [ASType |-> "null", length |-> 0, index |-> 0]
  ELSE [ASType |-> table[CHOOSE e \in 1..Len(lengths) :
                           lengths[e] > 0 /\ \A f \in 1..(e - 1) : lengths[f] = 0].ASType,
        length |-> lengths[CHOOSE e \in 1..Len(lengths) :
                             lengths[e] > 0 /\ \A f \in 1..(e - 1) : lengths[f] = 0],
        index |-> at]

\* The first position from position on that holds no white space; the end
\* of the text if there is none.
SkipSpace(text, position) ==
  IF \A p \in position..(Len(text) - 1) : isSpace(At(text, p + 1)) THEN Len(text)
  ELSE CHOOSE p \in position..(Len(text) - 1) :
         /\ ~isSpace(At(text, p + 1))
         /\ \A q \in position..(p - 1) : isSpace(At(text, q + 1))

\* exec of a regexp with the global flag in place of the sticky one and no
\* pattern for white space: the match is searched from lastIndex onwards.
execSearching(text, position) ==
  Result(lexerData, MatchLengths(lexerData, text, SkipSpace(text, position)),
         SkipSpace(text, position))

\* regexp.exec(text) with the sticky flag: the first pattern, in order, that
\* matches at regexp.lastIndex (from 0); "null" if none does.
exec(text, position) == Result(lexerData, MatchLengths(lexerData, text, position), position)

\* lexify without `regexp.lastIndex = 0`: the regular expression is shared by
\* all the calls and keeps the position the last one left.
resetLastIndexKept(stale) == stale

\* regexp.lastIndex = 0;
resetLastIndex(stale) == 0

\* One turn of the while loop of lexify: the token of the result of exec,
\* and regexp.lastIndex after it.
Turn(text, result) ==
  IF result.ASType = "null"
  THEN [tokens |-> << >>, lastIndex |-> 0, thrown |-> TypeError("result is null")]
  ELSE [tokens |-> << [ASType |-> result.ASType,
                       text |-> textOf(SubSeq(text, result.index + 1,
                                              result.index + result.length)),
                       chars |-> SubSeq(text, result.index + 1, result.index + result.length),
                       length |-> result.length,
                       pos |-> result.index] >>,
        lastIndex |-> result.index + result.length, thrown |-> NoError]

\* The turns of the second half, after those of the first.
After(first, rest) ==
  IF first.thrown # NoError THEN first ELSE [rest EXCEPT !.tokens = first.tokens \o @]

\* At most iterations turns of the while loop of lexify, from
\* regexp.lastIndex = position on (evaluated by halves; every turn consumes
\* at least one code unit, so Len(text) turns complete the loop).
RECURSIVE lexLoop(_, _, _)
RECURSIVE lexRest(_, _, _)
lexRest(text, first, iterations) ==
  After(first, IF first.thrown # NoError THEN first
               ELSE lexLoop(text, first.lastIndex, iterations))

lexLoop(text, position, iterations) ==
  IF position >= Len(text) \/ iterations = 0
  THEN [tokens |-> << >>, lastIndex |-> position, thrown |-> NoError]
  ELSE IF iterations = 1 THEN Turn(text, exec(text, position))
  ELSE lexRest(text, lexLoop(text, position, iterations \div 2),
               iterations - iterations \div 2)

\* tokens.push({ASType: END_OF_INPUT, text: '\n', length: 1, pos: textLength})
Sentinel(lexed, textLength) ==
  IF lexed.thrown # NoError THEN lexed
  ELSE [lexed EXCEPT !.tokens = Append(@, [ASType |-> "END_OF_INPUT", text |-> "\n",
                                          chars |-> <<10>>, length |-> 1, pos |-> textLength])]

\* lexify(text), entered with regexp.lastIndex = stale.
lexify(text, stale) == Sentinel(lexLoop(text, resetLastIndex(stale), Len(text)), Len(text))

(***************************************************************************)
(* byteCode.js: float literals.  A float the compiler handles is a sign,   *)
(* an integer part and a decimal fraction num / scale (scale a power of    *)
(* ten).  The encoders are exact for an integer part below 2^31 and a      *)
(* scale up to 10^4: such a value is a normal number in both formats.      *)
(***************************************************************************)
FloatOf(n) == [neg |-> FALSE, int |-> n, num |-> 0, scale |-> 1]

\* The number JS passes to literal() for the constant n of a run type.
NumberOf(runType, n) == IF runType \in {"i32", "i64"} THEN NumOfNat(n) ELSE FloatOf(n)

\* -value
Minus(value) ==
  IF "mag" \in DOMAIN value THEN Negate(value) ELSE [value EXCEPT !.neg = ~@]

\* parseFloat(text) on the text "ddd.ddd" of a float literal
parseFloat(chars) ==
  LET RECURSIVE natOf(_)
      natOf(digits) == IF digits = << >> THEN 0
                       ELSE 10 * natOf(SubSeq(digits, 1, Len(digits) - 1))
                            + (digits[Len(digits)] - 48)
      point == RunEnd(chars, 1, "digit")
      last == RunEnd(chars, point + 1, "digit") - 1
  IN [neg |-> FALSE, int |-> natOf(SubSeq(chars, 1, point - 1)),
      num |-> natOf(SubSeq(chars, point + 1, last)), scale |-> 10 ^ (last - point)]

\* 2^i modulo m
RECURSIVE pow2Mod(_, _)
pow2Mod(i, m) ==
  IF i = 0 THEN 1 % m
  ELSE (((pow2Mod(i \div 2, m) * pow2Mod(i \div 2, m)) % m) * (IF i % 2 = 1 THEN 2 ELSE 1)) % m

\* Bit j of the binary expansion of a value: weight 2^(-j), j <= 0 in the
\* integer part.
bitAt(value, j) ==
  IF j <= 0 THEN (value.int \div (2 ^ (0 - j))) % 2
  ELSE ((pow2Mod(j, 2 * value.scale) * value.num) % (2 * value.scale)) \div value.scale

\* Some bit after bit j is set.
restAfter(value, j) ==
  IF j <= 0 THEN (value.int % (2 ^ (0 - j))) # 0 \/ value.num # 0
  ELSE (pow2Mod(j, value.scale) * value.num) % value.scale # 0

\* The bits of a significand, rounded up if up: the last 0 becomes 1 and
\* the bits after it 0; all ones carry into the exponent.
roundedBits(neg, exponent, exact, up) ==
  LET zeros == { k \in 1..Len(exact) : exact[k] = 0 }
  IN IF ~up THEN [neg |-> neg, exponent |-> exponent, bits |-> exact]
     ELSE IF zeros = {}
     THEN [neg |-> neg, exponent |-> exponent + 1,
           bits |-> [k \in 1..Len(exact) |-> IF k = 1 THEN 1 ELSE 0]]
     ELSE [neg |-> neg, exponent |-> exponent,
           bits |-> [k \in 1..Len(exact) |->
                       IF k < (CHOOSE l \in zeros : \A m \in zeros : m <= l) THEN exact[k]
                       ELSE IF k = (CHOOSE l \in zeros : \A m \in zeros : m <= l) THEN 1
                       ELSE 0]]

\* The double of a value whose leading bit is bit leading.
doubleFrom(value, leading) ==
  roundedBits(value.neg, 0 - leading, [k \in 1..53 |-> bitAt(value, leading + k - 1)],
              /\ bitAt(value, leading + 53) = 1
              /\ (restAfter(value, leading + 53) \/ bitAt(value, leading + 52) = 1))

\* The value rounded to the nearest double, ties to even: its binary
\* exponent and the 53 bits of its significand (zero: no bits).
ToDouble(value) ==
  IF value.int = 0 /\ value.num = 0 THEN [neg |-> value.neg, exponent |-> 0, bits |-> << >>]
  ELSE doubleFrom(value, CHOOSE j \in (0 - 30)..64 :
                           bitAt(value, j) = 1 /\ \A k \in (0 - 30)..(j - 1) : bitAt(value, k) = 0)

\* A double rounded to the nearest single, ties to even.
ToSingle(double) ==
  IF double.bits = << >> THEN double
  ELSE roundedBits(double.neg, double.exponent, SubSeq(double.bits, 1, 24),
                   /\ double.bits[25] = 1
                   /\ ((\E k \in 26..53 : double.bits[k] = 1) \/ double.bits[24] = 1))

\* The bytes of an IEEE 754 number, most significant first, as
\* DataView.setFloat32 / setFloat64 store them.
IEEEBytes(number, exponentBits, bias) ==
  LET biased == IF number.bits = << >> THEN 0 ELSE number.exponent + bias
      all == << IF number.neg THEN 1 ELSE 0 >>
             \o [k \in 1..exponentBits |-> (biased \div (2 ^ (exponentBits - k))) % 2]
             \o (IF number.bits = << >>
                 THEN [k \in 1..(IF exponentBits = 8 THEN 23 ELSE 52) |-> 0]
                 ELSE Tail(number.bits))
  IN [m \in 1..(Len(all) \div 8) |->
        128 * all[8 * m - 7] + 64 * all[8 * m - 6] + 32 * all[8 * m - 5] + 16 * all[8 * m - 4]
        + 8 * all[8 * m - 3] + 4 * all[8 * m - 2] + 2 * all[8 * m - 1] + all[8 * m]]

\* byteView.setFloat32(0, value): the buffer afterwards
setFloat32(view, value) ==
  LET stored == IEEEBytes(ToSingle(ToDouble(value)), 8, 127)
  IN [i \in 1..8 |-> IF i <= 4 THEN stored[i] ELSE view[i]]

\* byteView.setFloat64(0, value)
setFloat64(view, value) == IEEEBytes(ToDouble(value), 11, 1023)

\* f32(value) and f64(value), reading the buffer back
f32(view) == << view[4], view[3], view[2], view[1] >>
f64(view) == << view[8], view[7], view[6], view[5], view[4], view[3], view[2], view[1] >>

(***************************************************************************)
(* /compiler/validation.js                                                  *)
(***************************************************************************)
\* The operatorTable (kept in /compiler/moduleCodeGen.js).
operatorTable ==
  ( "==" :>
      ( "i32,i32" :> [returnType |-> "i32", operator |-> "i32.eq"] @@
        "i64,i64" :> [returnType |-> "i32", operator |-> "i64.eq"] @@
        "f32,f32" :> [returnType |-> "i32", operator |-> "f32.eq"] @@
        "f64,f64" :> [returnType |-> "i32", operator |-> "f64.eq"] )
  @@ "!=" :>
      ( "i32,i32" :> [returnType |-> "i32", operator |-> "i32.ne"] @@
        "i64,i64" :> [returnType |-> "i32", operator |-> "i64.ne"] @@
        "f32,f32" :> [returnType |-> "i32", operator |-> "f32.ne"] @@
        "f64,f64" :> [returnType |-> "i32", operator |-> "f64.ne"] )
  @@ "<" :>
      ( "i32,i32" :> [returnType |-> "i32", operator |-> "i32.lt_s"] @@
        "i64,i64" :> [returnType |-> "i32", operator |-> "i64.lt_s"] @@
        "f32,f32" :> [returnType |-> "i32", operator |-> "f32.lt"] @@
        "f64,f64" :> [returnType |-> "i32", operator |-> "f64.lt"] )
  @@ "|<|" :>
      ( "i32,i32" :> [returnType |-> "i32", operator |-> "i32.lt_u"] @@
        "i64,i64" :> [returnType |-> "i64", operator |-> "i64.lt_u"] )
  @@ ">" :>
      ( "i32,i32" :> [returnType |-> "i32", operator |-> "i32.gt_s"] @@
        "i64,i64" :> [returnType |-> "i32", operator |-> "i64.gt_s"] @@
        "f32,f32" :> [returnType |-> "i32", operator |-> "f32.gt"] @@
        "f64,f64" :> [returnType |-> "i32", operator |-> "f64.gt"] )
  @@ "|>|" :>
      ( "i32,i32" :> [returnType |-> "i32", operator |-> "i32.gt_u"] @@
        "i64,i64" :> [returnType |-> "i64", operator |-> "i64.gt_u"] )
  @@ "<=" :>
      ( "i32,i32" :> [returnType |-> "i32", operator |-> "i32.le_s"] @@
        "i64,i64" :> [returnType |-> "i32", operator |-> "i64.le_s"] @@
        "f32,f32" :> [returnType |-> "i32", operator |-> "f32.le"] @@
        "f64,f64" :> [returnType |-> "i32", operator |-> "f64.le"] )
  @@ "|<=|" :>
      ( "i32,i32" :> [returnType |-> "i32", operator |-> "i32.le_u"] @@
        "i64,i64" :> [returnType |-> "i64", operator |-> "i64.le_u"] )
  @@ ">=" :>
      ( "i32,i32" :> [returnType |-> "i32", operator |-> "i32.ge_s"] @@
        "i64,i64" :> [returnType |-> "i32", operator |-> "i64.ge_s"] @@
        "f32,f32" :> [returnType |-> "i32", operator |-> "f32.ge"] @@
        "f64,f64" :> [returnType |-> "i32", operator |-> "f64.ge"] )
  @@ "|>=|" :>
      ( "i32,i32" :> [returnType |-> "i32", operator |-> "i32.ge_u"] @@
        "i64,i64" :> [returnType |-> "i64", operator |-> "i64.ge_u"] )
  @@ "+" :>
      ( "i32,i32" :> [returnType |-> "i32", operator |-> "i32.add"] @@
        "i64,i64" :> [returnType |-> "i64", operator |-> "i64.add"] @@
        "f32,f32" :> [returnType |-> "f32", operator |-> "f32.add"] @@
        "f64,f64" :> [returnType |-> "f64", operator |-> "f64.add"] )
  @@ "-" :>
      ( "i32,i32" :> [returnType |-> "i32", operator |-> "i32.sub"] @@
        "i64,i64" :> [returnType |-> "i64", operator |-> "i64.sub"] @@
        "f32,f32" :> [returnType |-> "f32", operator |-> "f32.sub"] @@
        "f64,f64" :> [returnType |-> "f64", operator |-> "f64.sub"] )
  @@ "*" :>
      ( "i32,i32" :> [returnType |-> "i32", operator |-> "i32.mul"] @@
        "i64,i64" :> [returnType |-> "i64", operator |-> "i64.mul"] @@
        "f32,f32" :> [returnType |-> "f32", operator |-> "f32.mul"] @@
        "f64,f64" :> [returnType |-> "f64", operator |-> "f64.mul"] )
  @@ "/" :>
      ( "i32,i32" :> [returnType |-> "i32", operator |-> "i32.div_s"] @@
        "i64,i64" :> [returnType |-> "i64", operator |-> "i64.div_s"] @@
        "f32,f32" :> [returnType |-> "f32", operator |-> "f32.div"] @@
        "f64,f64" :> [returnType |-> "f64", operator |-> "f64.div"] )
  @@ "|/|" :>
      ( "i32,i32" :> [returnType |-> "i32", operator |-> "i32.div_u"] @@
        "i64,i64" :> [returnType |-> "i64", operator |-> "i64.div_u"] )
  @@ "&" :>
      ( "i32,i32" :> [returnType |-> "i32", operator |-> "i32.and"] @@
        "i64,i64" :> [returnType |-> "i64", operator |-> "i64.and"] )
  @@ "|" :>
      ( "i32,i32" :> [returnType |-> "i32", operator |-> "i32.or"] @@
        "i64,i64" :> [returnType |-> "i64", operator |-> "i64.or"] )
  @@ "xor" :>
      ( "i32,i32" :> [returnType |-> "i32", operator |-> "i32.xor"] @@
        "i64,i64" :> [returnType |-> "i64", operator |-> "i64.xor"] )
  @@ "with_sign_of" :>
      ( "f32,f32" :> [returnType |-> "f32", operator |-> "f32.copysign"] @@
        "f64,f64" :> [returnType |-> "f64", operator |-> "f64.copysign"] )
  @@ "%" :>
      ( "i32,i32" :> [returnType |-> "i32", operator |-> "i32.rem_s"] @@
        "i64,i64" :> [returnType |-> "i64", operator |-> "i64.rem_s"] )
  @@ "|%|" :>
      ( "i32,i32" :> [returnType |-> "i32", operator |-> "i32.rem_u"] @@
        "i64,i64" :> [returnType |-> "i64", operator |-> "i64.rem_u"] )
  @@ "<<" :>
      ( "i32,i32" :> [returnType |-> "i32", operator |-> "i32.shl"] @@
        "i64,i64" :> [returnType |-> "i64", operator |-> "i64.shl"] )
  @@ ">>" :>
      ( "i32,i32" :> [returnType |-> "i32", operator |-> "i32.shr_s"] @@
        "i64,i64" :> [returnType |-> "i64", operator |-> "i64.shr_s"] )
  @@ ">>>" :>
      ( "i32,i32" :> [returnType |-> "i32", operator |-> "i32.shr_u"] @@
        "i64,i64" :> [returnType |-> "i64", operator |-> "i64.shr_u"] )
  @@ "rotate_left" :>
      ( "i32,i32" :> [returnType |-> "i32", operator |-> "i32.rotl"] @@
        "i64,i64" :> [returnType |-> "i64", operator |-> "i64.rotl"] )
  @@ "rotate_right" :>
      ( "i32,i32" :> [returnType |-> "i32", operator |-> "i32.rotr"] @@
        "i64,i64" :> [returnType |-> "i64", operator |-> "i64.rotr"] )
  @@ "?<" :>
      ( "f32,f32" :> [returnType |-> "f32", operator |-> "f32.min"] @@
        "f64,f64" :> [returnType |-> "f64", operator |-> "f64.min"] )
  @@ "?>" :>
      ( "f32,f32" :> [returnType |-> "f32", operator |-> "f32.max"] @@
        "f64,f64" :> [returnType |-> "f64", operator |-> "f64.max"] )
  @@ "cast_i32" :>
      ( "f32" :> [returnType |-> "i32", operator |-> "i32.reinterpret/f32"] )
  @@ "cast_i64" :>
      ( "f64" :> [returnType |-> "i64", operator |-> "i64.reinterpret/f64"] )
  @@ "cast_f32" :>
      ( "i32" :> [returnType |-> "f32", operator |-> "f32.reinterpret/i32"] )
  @@ "cast_f64" :>
      ( "i64" :> [returnType |-> "f64", operator |-> "f64.reinterpret/i64"] )
  @@ "to_i32" :>
      ( "i64" :> [returnType |-> "i32", operator |-> "i32.wrap/i64"] @@
        "f32" :> [returnType |-> "i32", operator |-> "i32.trunc_s/f32"] @@
        "f64" :> [returnType |-> "i32", operator |-> "i32.trunc_s/i64"] )
  @@ "to_i64" :>
      ( "i32" :> [returnType |-> "i64", operator |-> "i64.extend_s/i64"] @@
        "f32" :> [returnType |-> "i64", operator |-> "i64.trunc_s/f32"] @@
        "f64" :> [returnType |-> "i64", operator |-> "i64.trunc_s/i64"] )
  @@ "to_f32" :>
      ( "i32" :> [returnType |-> "f32", operator |-> "f32.convert_s/i32"] @@
        "i64" :> [returnType |-> "f32", operator |-> "f32.convert_s/i64"] @@
        "f64" :> [returnType |-> "f32", operator |-> "f32.demote/f64"] )
  @@ "to_f64" :>
      ( "i32" :> [returnType |-> "f64", operator |-> "f64.convert_s/i32"] @@
        "i64" :> [returnType |-> "f64", operator |-> "f64.convert_s/i64"] @@
        "f64" :> [returnType |-> "f64", operator |-> "f64.promote/f32"] )
  @@ "abs" :>
      ( "f32" :> [returnType |-> "f32", operator |-> "f32.abs"] @@
        "f64" :> [returnType |-> "f64", operator |-> "f64.abs"] )
  @@ "ceil" :>
      ( "f32" :> [returnType |-> "f32", operator |-> "f32.ceil"] @@
        "f64" :> [returnType |-> "f64", operator |-> "f64.ceil"] )
  @@ "count_ones" :>
      ( "i32" :> [returnType |-> "i32", operator |-> "i32.popcnt"] @@
        "i64" :> [returnType |-> "i64", operator |-> "i64.popcnt"] )
  @@ "floor" :>
      ( "f32" :> [returnType |-> "f32", operator |-> "f32.floor"] @@
        "f64" :> [returnType |-> "f64", operator |-> "f64.floor"] )
  @@ "leading_zeros" :>
      ( "i32" :> [returnType |-> "i32", operator |-> "f32.clz"] @@
        "i64" :> [returnType |-> "i64", operator |-> "f64.clz"] )
  @@ "round" :>
      ( "f32" :> [returnType |-> "f32", operator |-> "f32.nearest"] @@
        "f64" :> [returnType |-> "f64", operator |-> "f64.nearest"] )
  @@ "sqrt" :>
      ( "f32" :> [returnType |-> "f32", operator |-> "f32.sqrt"] @@
        "f64" :> [returnType |-> "f64", operator |-> "f64.sqrt"] )
  @@ "trailing_zeros" :>
      ( "i32" :> [returnType |-> "i32", operator |-> "i32.ctz"] @@
        "i64" :> [returnType |-> "i64", operator |-> "i64.ctz"] )
  @@ "truncate" :>
      ( "f32" :> [returnType |-> "f32", operator |-> "f32.trunc"] @@
        "f64" :> [returnType |-> "f64", operator |-> "f64.trunc"] )
  @@ "!" :>
      ( "i32" :> [returnType |-> "i32", operator |-> "i32.eqz"] @@
        "i64" :> [returnType |-> "i32", operator |-> "i64.eqz"] )
  @@ "allocate_pages" :>
      ( "i32" :> [returnType |-> "i32", operator |-> "grow_memory"] ) )

\* operatorTable[text][key]: an opInfo, "undefined", or the "TypeError" of
\* indexing undefined.
opInfoOf(text, key) ==
  IF text \notin DOMAIN operatorTable THEN "TypeError"
  ELSE IF key \notin DOMAIN operatorTable[text] THEN "undefined"
  ELSE "found"

\* magnitude * 10 + digit, on base-128 digits.
RECURSIVE TimesTenPlus(_, _)
TimesTenPlus(mag, carry) ==
  IF mag = << >> THEN (IF carry = 0 THEN << >> ELSE <<carry % 128>> \o TimesTenPlus(<< >>, carry \div 128))
  ELSE <<(Head(mag) * 10 + carry) % 128>> \o TimesTenPlus(Tail(mag), (Head(mag) * 10 + carry) \div 128)

\* parseInt(text, 10) of a text that starts with a digit: the value of its
\* leading digits.
RECURSIVE parseDigits(_, _, _)
parseDigits(chars, i, mag) ==
  IF i > Len(chars) \/ ~isDigit(chars[i]) THEN [neg |-> FALSE, mag |-> Canon(mag)]
  ELSE parseDigits(chars, i + 1, TimesTenPlus(Canon(mag), chars[i] - 48))

parseInt(chars) == parseDigits(chars, 1, << >>)

\* a < b, for a, b >= 0
RECURSIVE LessDigits(_, _, _)
LessDigits(a, b, i) ==
  IF i = 0 THEN FALSE
  ELSE IF a[i] # b[i] THEN a[i] < b[i]
  ELSE LessDigits(a, b, i - 1)

LessThan(a, b) ==
  IF Len(a.mag) # Len(b.mag) THEN Len(a.mag) < Len(b.mag) ELSE LessDigits(a.mag, b.mag, Len(a.mag))

\* importSourceSplitter.exec(text) on the text of a STRING token:
\* /^"((?:[^"\\/]|\\.)*)\/((?:[^"\\/]|\\.)*)"$/.  << >> stands for null.
SourcePartEnd(text, i) == BodyEnd(text, i, {34, 47})

importSourceSplitter(text) ==
  LET slash == SourcePartEnd(text, 2)
      quote == SourcePartEnd(text, slash + 1)
  IN IF At(text, 1) = 34 /\ At(text, slash) = 47 /\ At(text, quote) = 34 /\ quote = Len(text)
     THEN << SubSeq(text, 2, slash - 1), SubSeq(text, slash + 1, quote - 1) >>
     ELSE << >>

\* findAncestorOfType that keeps ascending: the farthest ancestor of the type.
RECURSIVE findFarthestOfType(_, _, _)
findFarthestOfType(h, initialNode, ASType) ==
  LET parent == h.nodes[initialNode].parent
      farther == IF parent = 0 THEN 0 ELSE findFarthestOfType(h, parent, ASType)
  IN IF parent = 0 THEN 0
     ELSE IF farther # 0 THEN farther
     ELSE IF h.nodes[parent].ASType = ASType THEN parent
     ELSE 0

RECURSIVE findAncestorOfType(_, _, _)
findAncestorOfType(h, initialNode, ASType) ==
  LET parent == h.nodes[initialNode].parent
  IN IF parent = 0 THEN 0
     ELSE IF h.nodes[parent].ASType = ASType THEN parent
     ELSE findAncestorOfType(h, parent, ASType)

\* anonymousLocalVariable with fnScope.variables.unshift(definition): the
\* temporary goes in front of the parameters.
anonymousLocalVariableFirst(h, n, runType) ==
  LET fn == findAncestorOfType(h, n, "FN")
      fnScope == h.nodes[fn].scope
      name == "tmp-" \o runType
      names == h.scopes[fnScope].names
      d == Len(h.defs) + 1
  IN IF h.thrown # NoError THEN h
     ELSE IF fn = 0 THEN Throw(h, TypeError("findAncestorOfType(...) is null"))
     ELSE IF lookup(h, fnScope, name) # 0 THEN h
     ELSE [h EXCEPT
            !.defs = Append(@, [noDefinition EXCEPT
                                  !.index = 0, !.ASType = "VARIABLE", !.kind = "global", !.mutable = TRUE,
                                  !.name = name, !.runType = runType, !.scope = fnScope]),
            !.scopes = [[@ EXCEPT ![fnScope].names =
                           [k \in DOMAIN names \cup {name} |-> IF k = name THEN d ELSE names[k]]]
                          EXCEPT ![h.scopes[fnScope].variablesOf].variables = <<d>> \o @]]

\* Returns the tables; the definition is lookup(result, fnScope, name).
anonymousLocalVariable(h, n, runType) ==
  LET fn == findAncestorOfType(h, n, "FN")
      fnScope == h.nodes[fn].scope
      name == "tmp-" \o runType
      names == h.scopes[fnScope].names
      d == Len(h.defs) + 1
  IN IF h.thrown # NoError THEN h
     ELSE IF fn = 0 THEN Throw(h, TypeError("findAncestorOfType(...) is null"))
     ELSE IF lookup(h, fnScope, name) # 0 THEN h
     ELSE [h EXCEPT
            !.defs = Append(@, [noDefinition EXCEPT
                                  !.index = 0, !.ASType = "VARIABLE", !.kind = "global", !.mutable = TRUE,
                                  !.name = name, !.runType = runType, !.scope = fnScope]),
            !.scopes = [[@ EXCEPT ![fnScope].names =
                           [k \in DOMAIN names \cup {name} |-> IF k = name THEN d ELSE names[k]]]
                          EXCEPT ![h.scopes[fnScope].variablesOf].variables = Append(@, d)]]

Kids(h, n) == h.nodes[n].children
RunType(h, n) == h.nodes[n].runType
Escapes(h, n) == h.nodes[n].alwaysEscapes
Unreachable(h) == Throw(h, CompileError("Unreachable Code"))

\* node.meta = {tempVariable: anonymousLocalVariable(node, runType)}
withTempVariable(h, n, runType) ==
  LET made == anonymousLocalVariable(h, n, runType)
      fnScope == made.nodes[findAncestorOfType(made, n, "FN")].scope
  IN IF made.thrown # NoError THEN made
     ELSE [made EXCEPT !.nodes[n].meta =
             [kind |-> "tempVariable", tempVariable |-> lookup(made, fnScope, "tmp-" \o runType)]]

RECURSIVE validate(_, _, _)

\* ADD ... ORDER_COMPARISON
validateInfix(h, n) ==
  LET left == Kids(h, n)[1]
      right == Kids(h, n)[2]
      h2 == validate(validate(h, left, TRUE), right, TRUE)
      text == h.nodes[n].token.text
      key == RunType(h2, left) \o "," \o RunType(h2, right)
      opInfo == opInfoOf(text, key)
  IN IF h2.thrown # NoError THEN h2
     ELSE IF opInfo = "TypeError" THEN Throw(h2, TypeError("operatorTable[token.text] is undefined"))
     ELSE IF Escapes(h2, left) \/ Escapes(h2, right) THEN Unreachable(h2)
     ELSE IF opInfo = "undefined" THEN Throw(h2, CompileError("Undefined Operator"))
     ELSE [h2 EXCEPT !.nodes[n].meta = [kind |-> "opInfo", returnType |-> operatorTable[text][key].returnType,
                                        operator |-> operatorTable[text][key].operator],
                     !.nodes[n].runType = operatorTable[text][key].returnType]

\* ALLOCATE_PAGES, UNARY_MATH_OP
validateUnary(h, n) ==
  LET child == Kids(h, n)[1]
      h1 == validate(h, child, TRUE)
      text == h.nodes[n].token.text
      key == RunType(h1, child)
      opInfo == opInfoOf(text, key)
  IN IF h1.thrown # NoError THEN h1
     ELSE IF opInfo = "TypeError" THEN Throw(h1, TypeError("operatorTable[token.text] is undefined"))
     ELSE IF Escapes(h1, child) THEN Unreachable(h1)
     ELSE IF opInfo = "undefined" THEN Throw(h1, CompileError("Undefined Operator"))
     ELSE [h1 EXCEPT !.nodes[n].meta = [kind |-> "opInfo", returnType |-> operatorTable[text][key].returnType,
                                        operator |-> operatorTable[text][key].operator],
                     !.nodes[n].runType = operatorTable[text][key].returnType]

validateAnd(h, n) ==
  LET left == Kids(h, n)[1]
      right == Kids(h, n)[2]
      h1 == validate(h, left, TRUE)
      h2 == validate(h1, right, TRUE)
  IN IF h1.thrown # NoError THEN h1
     ELSE IF Escapes(h1, left) THEN Unreachable(h1)
     ELSE IF h2.thrown # NoError THEN h2
     ELSE IF RunType(h2, right) # RunType(h1, left)
     THEN Throw(h2, CompileError("Inconsistent Type For Boolean"))
     ELSE IF RunType(h1, left) = "void" THEN Throw(h2, CompileError("Non-Numeric Type For Boolean"))
     ELSE [h2 EXCEPT !.nodes[n].runType = RunType(h1, left)]

validateOr(h, n) ==
  LET left == Kids(h, n)[1]
      right == Kids(h, n)[2]
      h1 == validate(h, left, TRUE)
      h2 == validate(h1, right, TRUE)
      h3 == withTempVariable(h2, n, RunType(h1, left))
  IN IF h1.thrown # NoError THEN h1
     ELSE IF Escapes(h1, left) THEN Unreachable(h1)
     ELSE IF h2.thrown # NoError THEN h2
     ELSE IF RunType(h2, right) # RunType(h1, left)
     THEN Throw(h2, [name |-> "ReferenceError", type |-> "leftType is not defined"])
     ELSE IF RunType(h1, left) = "void" THEN Throw(h2, CompileError("Non-Numeric Type For Boolean"))
     ELSE IF h3.thrown # NoError THEN h3
     ELSE [h3 EXCEPT !.nodes[n].runType = RunType(h1, left)]

\* validate(ASSIGN) without the test of left.meta.mutable.
validateAssignAnyTarget(h, n, valueRequired) ==
  LET left == Kids(h, n)[1]
      right == Kids(h, n)[2]
      toMemory == h.nodes[left].ASType = "MEMORY_ACCESS"
      leftType == IF toMemory THEN Referent(h, left).returnType ELSE Referent(h, left).runType
      h1 == IF toMemory THEN validate(h, left, valueRequired) ELSE h
      h2 == IF toMemory /\ valueRequired THEN withTempVariable(h1, n, leftType) ELSE h1
      h3 == validate(h2, right, TRUE)
  IN IF h.nodes[left].meta.kind = "null" THEN Throw(h, TypeError("left.meta is null"))
     ELSE IF h2.thrown # NoError THEN h2
     ELSE IF h3.thrown # NoError THEN h3
     ELSE IF Escapes(h3, right) THEN Unreachable(h3)
     ELSE IF RunType(h3, right) # leftType THEN Throw(h3, CompileError("Assignment Type Mismatch"))
     ELSE [h3 EXCEPT !.nodes[n].runType = leftType]

\* validate, case ASSIGN
validateAssign(h, n, valueRequired) ==
  LET left == Kids(h, n)[1]
      right == Kids(h, n)[2]
      toMemory == h.nodes[left].ASType = "MEMORY_ACCESS"
      leftType == IF toMemory THEN Referent(h, left).returnType ELSE Referent(h, left).runType
      h1 == IF toMemory THEN validate(h, left, valueRequired) ELSE h
      h2 == IF toMemory /\ valueRequired THEN withTempVariable(h1, n, leftType) ELSE h1
      h3 == validate(h2, right, TRUE)
  IN IF h.nodes[left].meta.kind = "null" THEN Throw(h, TypeError("left.meta is null"))
     ELSE IF h2.thrown # NoError THEN h2
     ELSE IF ~toMemory /\ h.nodes[left].ASType # "DEFINITION" /\ ~Referent(h, left).mutable
     THEN Throw(h2, CompileError("Assignment To Immutable"))
     ELSE IF h3.thrown # NoError THEN h3
     ELSE IF Escapes(h3, right) THEN Unreachable(h3)
     ELSE IF RunType(h3, right) # leftType THEN Throw(h3, CompileError("Assignment Type Mismatch"))
     ELSE [h3 EXCEPT !.nodes[n].runType = leftType]

\* Every child but the last, never reported as unreachable code.
RECURSIVE validateStatementsReachable(_, _, _)
validateStatementsReachable(h, n, i) ==
  LET child == Kids(h, n)[i]
      h1 == validate(h, child, FALSE)
  IN IF h.thrown # NoError \/ i >= Len(Kids(h, n)) THEN h
     ELSE IF h1.thrown # NoError THEN h1
     ELSE validateStatementsReachable(
            IF RunType(h1, child) # "void" THEN [h1 EXCEPT !.nodes[child].dropValue = TRUE] ELSE h1,
            n, i + 1)

\* BLOCK, PAREN: every child but the last, from the i-th on.
RECURSIVE validateStatements(_, _, _)
validateStatements(h, n, i) ==
  LET child == Kids(h, n)[i]
      h1 == validate(h, child, FALSE)
  IN IF h.thrown # NoError \/ i >= Len(Kids(h, n)) THEN h
     ELSE IF h1.thrown # NoError THEN h1
     ELSE IF Escapes(h1, child) THEN Unreachable(h1)
     ELSE validateStatements(
            IF RunType(h1, child) # "void" THEN [h1 EXCEPT !.nodes[child].dropValue = TRUE] ELSE h1,
            n, i + 1)

\* The last child never marked as a value to drop.
validateBlockKeepingLast(h, n, valueRequired) ==
  LET lastChild == Kids(h, n)[Len(Kids(h, n))]
      h1 == validateStatements(h, n, 1)
      h2 == validate(h1, lastChild, valueRequired)
      lastChildType == RunType(h2, lastChild)
  IN IF Len(Kids(h, n)) = 0 THEN h
     ELSE IF h2.thrown # NoError THEN h2
     ELSE [h2 EXCEPT
            !.nodes[n].alwaysEscapes = Escapes(h2, lastChild),
            !.nodes[n].runType = IF valueRequired THEN lastChildType ELSE @]

validateBlock(h, n, valueRequired) ==
  LET lastChild == Kids(h, n)[Len(Kids(h, n))]
      h1 == validateStatements(h, n, 1)
      h2 == validate(h1, lastChild, valueRequired)
      lastChildType == RunType(h2, lastChild)
  IN IF Len(Kids(h, n)) = 0 THEN h
     ELSE IF h2.thrown # NoError THEN h2
     ELSE [h2 EXCEPT
            !.nodes[n].alwaysEscapes = Escapes(h2, lastChild),
            !.nodes[n].runType = IF valueRequired THEN lastChildType ELSE @,
            !.nodes[lastChild].dropValue =
               IF ~valueRequired /\ lastChildType # "void" THEN TRUE ELSE @]

\* BREAK, YIELD
validateYield(h, n) ==
  LET loop == findAncestorOfType(h, n, "LOOP")
      child == Kids(h, n)[1]
      h1 == [h EXCEPT !.nodes[loop].meta.yieldPoints = Append(@, n),
                      !.nodes[n].meta = [kind |-> "jump", jumpTarget |-> loop],
                      !.nodes[n].alwaysEscapes = TRUE]
      h2 == validate(h1, child, TRUE)
  IN IF loop = 0 THEN Throw(h, CompileError("Misplaced Break/Yield/Continue"))
     ELSE IF h.nodes[loop].meta.kind # "loop" THEN Throw(h, TypeError("loop.meta is null"))
     ELSE IF Len(Kids(h, n)) # 1 THEN h1
     ELSE IF h2.thrown # NoError THEN h2
     ELSE IF Escapes(h2, child) THEN Unreachable(h2)
     ELSE [h2 EXCEPT !.nodes[n].runType = RunType(h2, child)]

validateContinue(h, n) ==
  LET loop == findAncestorOfType(h, n, "LOOP")
  IN IF loop = 0 THEN Throw(h, CompileError("Misplaced Break/Yield/Continue"))
     ELSE [h EXCEPT !.nodes[n].meta = [kind |-> "jump", jumpTarget |-> loop],
                    !.nodes[n].alwaysEscapes = TRUE]

RECURSIVE validateArguments(_, _, _)
validateArguments(h, n, i) ==
  LET args == Kids(h, Kids(h, n)[1])
      h1 == validate(h, args[i], TRUE)
  IN IF h.thrown # NoError \/ i > Len(args) THEN h
     ELSE IF h1.thrown # NoError THEN h1
     ELSE IF Escapes(h1, args[i]) THEN Unreachable(h1)
     ELSE IF RunType(h1, args[i]) # Referent(h, n).paramTypes[i]
     THEN Throw(h1, CompileError("Function Signature Mismatch"))
     ELSE validateArguments(h1, n, i + 1)

validateCall(h, n) ==
  LET fn == Referent(h, n)
      h1 == validateArguments(h, n, 1)
  IN IF h.nodes[n].meta.kind = "null" THEN Throw(h, TypeError("fn is null"))
     ELSE IF Len(Kids(h, Kids(h, n)[1])) # Len(fn.paramTypes)
     THEN Throw(h, CompileError("Wrong Number of Arguments"))
     ELSE IF h1.thrown # NoError THEN h1
     ELSE [h1 EXCEPT !.nodes[n].runType = fn.returnType]

\* DEFAULT_MEMORY, DEFAULT_TABLE
validateLimits(h, n) ==
  LET initialSize == Referent(h, n).initialSize
      maxSize == Referent(h, n).maxSize
      h1 == validate(h, initialSize, TRUE)
      h2 == validate(h1, maxSize, TRUE)
  IN IF h.nodes[maxSize].ASType = "VOID" THEN h1
     ELSE IF h2.thrown # NoError THEN h2
     ELSE IF LessThan(h2.nodes[maxSize].meta.value, h2.nodes[initialSize].meta.value)
     THEN Throw(h2, CompileError("Unintelligible Size"))
     ELSE h2

validateDefinition(h, n) ==
  LET h1 == validate(h, Kids(h, n)[2], FALSE)
  IN IF h1.thrown # NoError THEN h1
     ELSE [h1 EXCEPT !.nodes[n].runType = Referent(h1, n).runType]

validateElse(h, n, valueRequired) ==
  LET condition == Kids(h, Kids(h, n)[1])[1]
      ifBody == Kids(h, Kids(h, n)[1])[2]
      elseBody == Kids(h, n)[2]
      h1 == validate(h, condition, TRUE)
      h2 == validate(h1, ifBody, valueRequired)
      h3 == validate(h2, elseBody, valueRequired)
      runType == RunType(h2, ifBody)
      elseType == RunType(h3, elseBody)
  IN IF h1.thrown # NoError THEN h1
     ELSE IF Escapes(h1, condition) THEN Unreachable(h1)
     ELSE IF RunType(h1, condition) = "void" THEN Throw(h1, CompileError("Bad Condition"))
     ELSE IF h3.thrown # NoError THEN h3
     ELSE IF Escapes(h3, ifBody)
     THEN IF Escapes(h3, elseBody)
          THEN [h3 EXCEPT !.nodes[n].alwaysEscapes = TRUE, !.nodes[n].runType = runType]
          ELSE [h3 EXCEPT !.nodes[n].runType = elseType]
     ELSE IF runType # elseType THEN Throw(h3, CompileError("Inconsistent Type"))
     ELSE [h3 EXCEPT !.nodes[n].runType = runType]

validateExport(h, n) ==
  LET given == Kids(h, n)[1]
      renamed == h.nodes[given].ASType = "AS"
      child == IF renamed THEN Kids(h, given)[1] ELSE given
      quoted == h.nodes[Kids(h, given)[2]].token.chars
      name == IF renamed THEN SubSeq(quoted, 2, Len(quoted) - 1) ELSE h.nodes[child].token.chars
      list == IF h.nodes[child].token.text = "default_table" THEN h.glob.defaultTable
              ELSE h.glob.defaultMemory
      \* 0 stands for undefined
      definition == IF renamed /\ h.nodes[child].ASType = "EXPORT_TYPE"
                    THEN (IF Len(list) > 0 THEN list[1] ELSE 0)
                    ELSE IF h.nodes[child].meta.kind = "definition"
                    THEN h.nodes[child].meta.definition
                    ELSE 0
  IN IF definition = 0 THEN Throw(h, TypeError("definition is undefined"))
     ELSE IF h.defs[definition].mutable THEN Throw(h, CompileError("Mutable Export"))
     ELSE [h EXCEPT !.defs[definition].exportName = <<name>>,
                    !.glob.exports = Append(@, definition)]

validateFn(h, n) ==
  LET body == Referent(h, n).body
      h1 == validate(h, body, Referent(h, n).returnType # "void")
  IN IF h1.thrown # NoError THEN h1
     ELSE IF RunType(h1, body) # Referent(h, n).returnType /\ ~Escapes(h1, body)
     THEN Throw(h1, CompileError("Implicit Return Type Mismatch"))
     ELSE h1

\* I32_LITERAL, I64_LITERAL
validateInteger(h, n, runType) ==
  LET value == parseInt(h.nodes[n].token.chars)
      negative == h.nodes[h.nodes[n].parent].ASType = "NEG"
  IN IF ~literalInRange(runType, value, negative)
     THEN Throw(h, CompileError("Integer Literal Out of Range"))
     ELSE [h EXCEPT !.nodes[n].meta = [kind |-> "literal", value |-> value, runType |-> runType],
                    !.nodes[n].runType = runType]

\* F32_LITERAL, F64_LITERAL: parseFloat stops at the "x" of the suffix, with
\* or without the replace / slice that removes it.
validateFloat(h, n, runType) ==
  LET value == parseFloat(h.nodes[n].token.chars)
  IN [h EXCEPT !.nodes[n].meta = [kind |-> "literal", value |-> value, runType |-> runType],
               !.nodes[n].runType = runType]

validateIf(h, n) ==
  LET condition == Kids(h, n)[1]
      h1 == validate(h, condition, TRUE)
  IN IF h1.thrown # NoError THEN h1
     ELSE IF Escapes(h1, condition) THEN Unreachable(h1)
     ELSE IF RunType(h1, condition) = "void" THEN Throw(h1, CompileError("Bad Condition"))
     ELSE validate(h1, Kids(h, n)[2], FALSE)

validateImport(h, n) ==
  LET spec == Kids(h, n)[1]
      sources == importSourceSplitter(h.nodes[Kids(h, n)[3]].token.chars)
      h1 == [h EXCEPT !.defs[h.nodes[spec].meta.definition].importSource = <<sources>>]
  IN IF sources = << >> THEN Throw(h, CompileError("Bad Import Source"))
     ELSE IF h.nodes[spec].ASType \in {"DEFAULT_TABLE", "DEFAULT_MEMORY"}
     THEN validate(h1, spec, TRUE)
     ELSE h1

\* right.meta.imported is a property no definition has.
validateInitExpr(h, n) ==
  LET left == Kids(h, n)[1]
      right == Kids(h, n)[2]
      h1 == [h EXCEPT !.defs[h.nodes[left].meta.definition].initializer = right]
      h2 == validate(h1, right, TRUE)
  IN IF h2.thrown # NoError THEN h2
     ELSE IF RunType(h2, right) # Referent(h2, left).runType
     THEN Throw(h2, CompileError("Assignment Type Mismatch"))
     ELSE IF h2.nodes[right].ASType = "VARIABLE" /\ Referent(h2, right).mutable
     THEN Throw(h2, CompileError("Bad Initializer"))
     ELSE h2

RECURSIVE consistentYields(_, _, _)
consistentYields(h, yieldPoints, i) ==
  i > Len(yieldPoints)
  \/ (RunType(h, yieldPoints[i]) = RunType(h, yieldPoints[1]) /\ consistentYields(h, yieldPoints, i + 1))

validateLoop(h, n) ==
  LET h1 == validate([h EXCEPT !.nodes[n].meta = [kind |-> "loop", yieldPoints |-> << >>,
                                                   returnPoints |-> << >>, depth |-> 0]],
                     Kids(h, n)[1], FALSE)
      yieldPoints == h1.nodes[n].meta.yieldPoints
      returnPoints == h1.nodes[n].meta.returnPoints
  IN IF h1.thrown # NoError THEN h1
     ELSE IF Len(yieldPoints) = 0
     THEN IF Len(returnPoints) = 0 THEN Throw(h1, CompileError("Infinite Loop"))
          ELSE [h1 EXCEPT !.nodes[n].alwaysEscapes = TRUE,
                          !.nodes[n].runType = RunType(h1, returnPoints[1])]
     ELSE IF ~consistentYields(h1, yieldPoints, 2)
     THEN Throw(h1, CompileError("Inconsistent Type For Loop"))
     ELSE [h1 EXCEPT !.nodes[n].runType = RunType(h1, yieldPoints[1])]

validateMemoryAccess(h, n) ==
  LET operands == Kids(h, Kids(h, n)[1])
      address == operands[1]
      h1 == validate(h, address, TRUE)
      h2 == IF Len(operands) >= 2 THEN validate(h1, operands[2], TRUE) ELSE h1
  IN IF Len(operands) = 0 THEN Throw(h, TypeError("address is undefined"))
     ELSE IF h1.thrown # NoError THEN h1
     ELSE IF Escapes(h1, address) THEN Unreachable(h1)
     ELSE IF RunType(h1, address) # "i32" THEN Throw(h1, CompileError("32-bit Address Required"))
     ELSE IF h2.thrown # NoError THEN h2
     ELSE [h2 EXCEPT !.nodes[n].runType = Referent(h, n).returnType]

\* RETURN: the walk up to the containing function.
RECURSIVE noteReturn(_, _, _)
noteReturn(h, ancestor, n) ==
  IF ancestor = 0 THEN Throw(h, TypeError("ancestor is null"))
  ELSE IF h.nodes[ancestor].ASType = "FN" THEN h
  ELSE IF h.nodes[ancestor].ASType # "LOOP" THEN noteReturn(h, h.nodes[ancestor].parent, n)
  ELSE IF h.nodes[ancestor].meta.kind # "loop" THEN Throw(h, TypeError("ancestor.meta is null"))
  ELSE noteReturn([h EXCEPT !.nodes[ancestor].meta.returnPoints = Append(@, n)],
                  h.nodes[ancestor].parent, n)

validateReturn(h, n) ==
  LET child == Kids(h, n)[1]
      h1 == IF Len(Kids(h, n)) = 1 THEN validate(h, child, TRUE) ELSE h
      runType == IF Len(Kids(h, n)) = 1 THEN RunType(h1, child) ELSE RunType(h, n)
      h2 == noteReturn(h1, h.nodes[n].parent, n)
      fn == findAncestorOfType(h, n, "FN")
  IN IF h1.thrown # NoError THEN h1
     ELSE IF Len(Kids(h, n)) = 1 /\ Escapes(h1, child) THEN Unreachable(h1)
     ELSE IF h2.thrown # NoError THEN h2
     ELSE IF Referent(h2, fn).returnType # runType
     THEN Throw(h2, CompileError("Explicit Return Type Mismatch"))
     ELSE [h2 EXCEPT !.nodes[n].alwaysEscapes = TRUE, !.nodes[n].runType = runType]

RECURSIVE validateRoot(_, _, _)
validateRoot(h, n, i) ==
  IF h.thrown # NoError \/ i > Len(Kids(h, n)) THEN h
  ELSE validateRoot(validate(h, Kids(h, n)[i], FALSE), n, i + 1)

\* NEG, SUFFIX_OP
validateOperand(h, n) ==
  LET h1 == validate(h, Kids(h, n)[1], TRUE)
  IN IF h1.thrown # NoError THEN h1
     ELSE [h1 EXCEPT !.nodes[n].runType = RunType(h1, Kids(h, n)[1])]

validate(h, n, valueRequired) ==
  LET ASType == h.nodes[n].ASType
  IN IF h.thrown # NoError THEN h
     ELSE CASE ASType \in {"ADD", "SUB", "SCALE_OP", "BITWISE_AND", "BITWISE_OR", "BITWISE_SHIFT",
                           "BITWISE_XOR", "MISC_INFIX", "EQ_COMPARISON", "ORDER_COMPARISON"} ->
                 validateInfix(h, n)
            [] ASType \in {"ALLOCATE_PAGES", "UNARY_MATH_OP"} -> validateUnary(h, n)
            [] ASType = "AND" -> validateAnd(h, n)
            [] ASType = "ASSIGN" -> validateAssign(h, n, valueRequired)
            [] ASType \in {"BLOCK", "PAREN"} -> validateBlock(h, n, valueRequired)
            [] ASType \in {"BREAK", "YIELD"} -> validateYield(h, n)
            [] ASType = "CALL" -> validateCall(h, n)
            [] ASType = "CONTINUE" -> validateContinue(h, n)
            [] ASType \in {"DEFAULT_MEMORY", "DEFAULT_TABLE"} -> validateLimits(h, n)
            [] ASType = "DEFINITION" -> validateDefinition(h, n)
            [] ASType = "ELSE" -> validateElse(h, n, valueRequired)
            [] ASType = "EXPORT" -> validateExport(h, n)
            [] ASType = "F32_LITERAL" -> validateFloat(h, n, "f32")
            [] ASType = "F64_LITERAL" -> validateFloat(h, n, "f64")
            [] ASType = "FN" -> validateFn(h, n)
            [] ASType = "FN_PTR" ->
                 IF Len(h.glob.defaultTable) # 1
                 THEN Throw(h, CompileError("No Table Defined For Function Pointer")) ELSE h
            [] ASType = "I32_LITERAL" -> validateInteger(h, n, "i32")
            [] ASType = "I64_LITERAL" -> validateInteger(h, n, "i64")
            [] ASType = "IF" -> validateIf(h, n)
            [] ASType = "IMPORT" -> validateImport(h, n)
            [] ASType = "INIT_EXPR" -> validateInitExpr(h, n)
            [] ASType = "LOOP" -> validateLoop(h, n)
            [] ASType = "MEMORY_ACCESS" -> validateMemoryAccess(h, n)
            [] ASType \in {"NEG", "SUFFIX_OP"} -> validateOperand(h, n)
            [] ASType = "OR" -> validateOr(h, n)
            [] ASType = "PAGES_ALLOCATED" -> [h EXCEPT !.nodes[n].runType = "i32"]
            [] ASType = "PTR" ->
                 IF Len(h.glob.defaultMemory) # 1
                 THEN Throw(h, CompileError("No Memory Defined For Pointer")) ELSE h
            [] ASType = "RETURN" -> validateReturn(h, n)
            [] ASType = "ROOT" -> validateRoot(h, n, 1)
            [] ASType = "VARIABLE" ->
                 IF h.nodes[n].meta.kind = "null" THEN Throw(h, TypeError("node.meta is null"))
                 ELSE [h EXCEPT !.nodes[n].runType = Referent(h, n).runType]
            [] OTHER -> h

\* The pipeline before the first text is given.
PipeInit ==
  /\ pc = "ready" /\ runs = 0 /\ seen = << >> /\ source = << >> /\ lastIndex = 0
  /\ tokens = << >> /\ index = 0 /\ node = 0 /\ nodes = << >> /\ scopes = << >> /\ defs = << >>
  /\ glob = << >> /\ err = NoError /\ bc = << >> /\ out = << >>
  /\ byteView = <<0, 0, 0, 0, 0, 0, 0, 0>>

\* What a compilation ended with: the error and the bytes.
Outcome == [thrown |-> err, bytes |-> out]

\* Editor.edit: the text becomes one of texts and is lexified.  The editor
\* is given at most limit texts, each once the compilation of the one before
\* has ended; seen keeps the outcome of the text left behind.
Lexified(text, lexed) ==
  /\ source' = text
  /\ tokens' = lexed.tokens
  /\ lastIndex' = lexed.lastIndex
  /\ err' = lexed.thrown
  /\ pc' = IF lexed.thrown = NoError THEN "parse" ELSE "failed"

edit(texts, limit) ==
  /\ pc \in {"ready", "done", "failed"}
  /\ runs < limit
  /\ \E text \in texts : Lexified(text, lexify(text, lastIndex))
  /\ runs' = runs + 1
  /\ seen' = IF pc = "ready" THEN seen
             ELSE Append(seen, [text |-> source, outcome |-> Outcome])
  /\ UNCHANGED <<index, node, nodes, scopes, defs, glob, bc, byteView, out>>
  /\ UNCHANGED lebVars

\* Editor.compile calls parse(this.tokens): the ROOT node and the loop's
\* initialisation.
parseBegin ==
  /\ pc = "parse"
  /\ Commit(createASTNode(EmptyHeap, nullToken, 0, "ROOT"), "loop")
  /\ index' = 1
  /\ node' = 1
  /\ bc' = << >>
  /\ out' = << >>
  /\ UNCHANGED <<runs, seen, source, lastIndex, tokens, byteView>>
  /\ UNCHANGED lebVars

\* resolve(root.scope), the second last statement of parse
parseResolve ==
  /\ pc = "resolve"
  /\ Commit(resolve(Heap, 1), "validate")
  /\ UNCHANGED <<runs, seen, source, lastIndex, tokens, index, node, bc, byteView, out>>
  /\ UNCHANGED lebVars

\* validate(root, false), the last statement of parse
parseValidate ==
  /\ pc = "validate"
  /\ Commit(validate(Heap, 1, FALSE), "generate")
  /\ UNCHANGED <<runs, seen, source, lastIndex, tokens, index, node, bc, byteView, out>>
  /\ UNCHANGED lebVars

(***************************************************************************)
(* /compiler/functionCodeGen.js.  The generation state s is the            *)
(* ByteCodeContainer tree together with the object tables its nodes and    *)
(* definitions live in and the module-level float buffer byteView.         *)
(***************************************************************************)
Generation(h, view) ==
  [parts |-> NewByteCodeContainer.parts, open |-> NewByteCodeContainer.open,
   thrown |-> h.thrown, nodes |-> h.nodes, scopes |-> h.scopes, defs |-> h.defs,
   glob |-> h.glob, byteView |-> view]

\* ByteCodeContainer.literal(runType, value, field)
\* this.bytes(f32(value), field, value) and this.bytes(f64(value), field,
\* value), view being the buffer after the value was stored in it.
floatBytes(s, view, runType, value, field) ==
  bytes([s EXCEPT !.byteView = view], IF runType = "f32" THEN f32(view) ELSE f64(view),
        field, value)

literalOf(s, runType, value, field) ==
  IF s.thrown # NoError THEN s
  ELSE IF runType \in {"i32", "i64"} THEN bytes(s, LEB(value), field, value)
  ELSE IF runType = "f32"
  THEN floatBytes(s, setFloat32(s.byteView, value), runType, value, field)
  ELSE IF runType = "f64"
  THEN floatBytes(s, setFloat64(s.byteView, value), runType, value, field)
  ELSE s

\* ByteCodeContainer.getVariable(index, isGlobal)
getVariable(s, at, isGlobal) ==
  IF isGlobal THEN varuintOf(op(s, "get_global"), at, "global_index")
  ELSE varuintOf(op(s, "get_local"), at, "local_index")

\* ByteCodeContainer.setVariable(index, isGlobal, tee)
setVariable(s, at, isGlobal, tee) ==
  IF isGlobal
  THEN IF tee
       THEN varuintOf(op(varuintOf(op(s, "set_global"), at, "global_index"), "get_global"),
                      at, "global_index")
       ELSE varuintOf(op(s, "set_global"), at, "global_index")
  ELSE IF tee THEN varuintOf(op(s, "tee_local"), at, "local_index")
  ELSE varuintOf(op(s, "set_local"), at, "local_index")

\* ByteCodeContainer.importDefinition(definition)
importDefinition(s, definition) ==
  IF s.thrown # NoError THEN s
  ELSE IF s.defs[definition].importSource = << >>
  THEN Throw(s, TypeError("definition.importSource is not iterable"))
  ELSE byte(string(string(s, s.defs[definition].importSource[1][1], "module"),
                   s.defs[definition].importSource[1][2], "field"),
            "external_kind." \o s.defs[definition].kind, "kind")

\* ByteCodeContainer.resizableLimits(definition)
resizableLimits(s, definition) ==
  LET initialSize == s.defs[definition].initialSize
      maxSize == s.defs[definition].maxSize
      value(n) == IF s.nodes[n].meta.kind = "literal" /\ "mag" \in DOMAIN s.nodes[n].meta.value
                  THEN s.nodes[n].meta.value ELSE [neg |-> TRUE, mag |-> <<1>>]
  IN IF s.thrown # NoError THEN s
     ELSE IF s.nodes[maxSize].ASType = "VOID"
     THEN varuintNum(varuintOf(s, 0, "flags"), value(initialSize), "initial")
     ELSE varuintNum(varuintNum(varuintOf(s, 1, "flags"), value(initialSize), "initial"),
                     value(maxSize), "maximum")

\* children[i] (from 1); 0 stands for undefined
Child(s, n, i) == IF n # 0 /\ i <= Len(s.nodes[n].children) THEN s.nodes[n].children[i] ELSE 0

\* The depth of the loop block taken for that of its container.
containerDepthOfLoop(depth) == depth + 2

\* generate (LOOP): node.meta.depth = depth + 1, the depth inside the block
\* that contains the loop block
containerDepth(depth) == depth + 1

\* Math.log2(storageSize), for the sizes define gives a pointer
log2(storageSize) == CHOOSE a \in 0..3 : 2 ^ a = storageSize

\* The alignment loop of ASSIGN and MEMORY_ACCESS, for an offset that is a
\* natural number; low is offset modulo 128:
\* for (...; offset % (2**alignment) !== 0; alignment--);
RECURSIVE alignmentLoop(_, _)
alignmentLoop(alignment, low) ==
  IF low % (2 ^ alignment) # 0 THEN alignmentLoop(alignment - 1, low) ELSE alignment

\* The loop that never runs: the alignment is that of the storage size.
AlignmentOfSize(storageSize, offset) == log2(storageSize)

\* for (var alignment = Math.log2(storageSize); ...)
Alignment(storageSize, offset) == alignmentLoop(log2(storageSize), Digit(offset, 1))

RECURSIVE generate(_, _, _)

\* ByteCodeContainer.generateEach(list, depth)
RECURSIVE generateEach(_, _, _)
generateEach(s, list, depth) ==
  IF list = << >> THEN s ELSE generateEach(generate(s, Head(list), depth), Tail(list), depth)

\* The address arithmetic ASSIGN and MEMORY_ACCESS share: the bytecode up to
\* i32.mul, for the pointer definition and the ADDRESS node.
generateAddress(s, pointer, address, depth) ==
  op(varuintOf(op(op(getVariable(generate(s, Child(s, address, 1), depth),
                                 pointer.index, pointer.isGlobal),
                     "i32.add"),
                  "i32.const"),
               pointer.storageSize, "value"),
     "i32.mul")

\* offsetProvided === undefined ? 0 : offsetProvided.meta.value
OffsetOf(s, address) ==
  IF Child(s, address, 2) = 0 THEN NumOfNat(0) ELSE s.nodes[Child(s, address, 2)].meta.value

\* node.meta.tempVariable.index
TempIndex(s, n) == s.defs[s.nodes[n].meta.tempVariable].index

generateAssign(s, n, depth) ==
  LET left == Child(s, n, 1)
      right == Child(s, n, 2)
      dropValue == s.nodes[n].dropValue
      pointer == Referent(s, left)
      address == Child(s, left, 1)
      offset == OffsetOf(s, address)
      alignment == Alignment(pointer.storageSize, offset)
      storageOp == pointer.returnType \o ".store"
                   \o (IF pointer.extendedType THEN ToString(pointer.storageBits) ELSE "")
      addressed == generate(generateAddress(s, pointer, address, depth), right, depth)
      store(t) == varuintNum(varuintOf(op(t, storageOp), alignment, "flags"), offset, "offset")
  IN IF s.nodes[left].ASType # "MEMORY_ACCESS"
     THEN setVariable(generate(s, right, depth), Referent(s, left).index,
                      Referent(s, left).isGlobal, ~dropValue)
     ELSE IF dropValue THEN store(addressed)
     ELSE IF s.nodes[n].meta.kind # "tempVariable"
     THEN Throw(addressed, TypeError("node.meta is null"))
     ELSE varuintOf(op(store(varuintOf(op(addressed, "tee_local"), TempIndex(s, n),
                                       "local_index")),
                       "get_local"),
                    TempIndex(s, n), "local_index")

generateMemoryAccess(s, n, depth) ==
  LET pointer == Referent(s, n)
      address == Child(s, n, 1)
      offset == OffsetOf(s, address)
      alignment == Alignment(pointer.storageSize, offset)
      loadOp == pointer.runType \o ".load"
                \o (IF pointer.extendedType
                    THEN ToString(pointer.storageBits) \o "_" \o pointer.storageSigned
                    ELSE "")
  IN varuintNum(varuintOf(op(generateAddress(s, pointer, address, depth), loadOp),
                          alignment, "flags"),
                offset, "offset")

\* "if" with the condition cast to i32, as IF and ELSE emit it
generateCondition(s, condition, depth) ==
  LET runType == s.nodes[condition].runType
      tested == generate(s, condition, depth)
  IN IF condition = 0 THEN Throw(s, TypeError("condition is undefined"))
     ELSE IF runType # "i32"
     THEN op(literalOf(op(tested, runType \o ".const"), runType, NumberOf(runType, 0), "value"),
             runType \o ".ne")
     ELSE tested

\* The switch of generate, case by case.
generateCase(s, n, depth) ==
  LET ASType == s.nodes[n].ASType
      children == s.nodes[n].children
      runType == s.nodes[n].runType
      meta == s.nodes[n].meta
      dropValue == s.nodes[n].dropValue
      child == Child(s, n, 1)
  IN CASE ASType \in {"ADD", "SUB", "SCALE_OP", "BITWISE_AND", "BITWISE_OR", "BITWISE_SHIFT",
                      "BITWISE_XOR", "MISC_INFIX", "EQ_COMPARISON", "ORDER_COMPARISON",
                      "UNARY_MATH_OP"} ->
            IF meta.kind # "opInfo" THEN Throw(s, TypeError("node.meta is null"))
            ELSE op(generateEach(s, children, depth), meta.operator)
       [] ASType = "ALLOCATE_PAGES" ->
            varuintOf(op(generate(s, child, depth), "grow_memory"), 0, "reserved")
       [] ASType = "AND" ->
            LET left == generate(s, child, depth)
                zero == IF runType \in {"i32", "i64"} THEN op(left, runType \o ".eqz")
                        ELSE op(literalOf(op(left, runType \o ".const"), runType,
                                          NumberOf(runType, 0), "value"),
                                runType \o ".eq")
                passed == literalOf(op(byte(op(zero, "if"), runType, "block_type"),
                                       runType \o ".const"),
                                    runType, NumberOf(runType, 0), "value")
            IN op(generate(op(passed, "else"), Child(s, n, 2), depth + 1), "end")
       [] ASType = "ASSIGN" -> generateAssign(s, n, depth)
       [] ASType \in {"BLOCK", "PAREN"} ->
            IF Len(children) = 1 THEN generate(s, child, depth)
            ELSE IF s.nodes[n].parent = 0 THEN Throw(s, TypeError("parent is null"))
            ELSE IF s.nodes[s.nodes[n].parent].ASType \in {"ELSE", "IF", "FN", "LOOP"}
            THEN generateEach(s, children, depth)
            ELSE op(generateEach(byte(op(s, "block"), runType, "block_type"),
                                 children, depth + 1),
                    "end")
       [] ASType \in {"BREAK", "YIELD"} ->
            IF meta.kind # "jump" THEN Throw(s, TypeError("node.meta is null"))
            ELSE LET yielded == generateEach(s, children, depth)
                 IN varuintOf(op(yielded, "br"),
                              depth - yielded.nodes[meta.jumpTarget].meta.depth,
                              "relative_depth")
       [] ASType = "CALL" ->
            LET passed == generateEach(s, s.nodes[child].children, depth)
                callee == Referent(s, n)
            IN IF meta.kind = "null" THEN Throw(passed, TypeError("node.meta is null"))
               ELSE IF callee.ASType = "FN_PTR"
               THEN varuintOf(varuintOf(op(getVariable(passed, callee.index, callee.isGlobal),
                                           "call_indirect"),
                                        callee.signatureIndex, "type_index"),
                              0, "reserved")
               ELSE varuintOf(op(passed, "call"), callee.index, "function_index")
       [] ASType = "CONTINUE" ->
            IF meta.kind # "jump" THEN Throw(s, TypeError("node.meta is null"))
            ELSE varuintOf(op(s, "br"), depth - s.nodes[meta.jumpTarget].meta.depth - 1,
                           "relative_depth")
       [] ASType \in {"DEFINITION", "VARIABLE"} ->
            IF dropValue THEN s
            ELSE IF meta.kind = "null" THEN Throw(s, TypeError("node.meta is null"))
            ELSE getVariable(s, Referent(s, n).index, Referent(s, n).isGlobal)
       [] ASType = "ELSE" ->
            LET tested == generateCondition(s, Child(s, child, 1), depth)
                passed == generate(byte(op(tested, "if"), runType, "block_type"),
                                   Child(s, child, 2), depth + 1)
            IN op(generate(op(passed, "else"), Child(s, n, 2), depth + 1), "end")
       [] ASType \in {"F32_LITERAL", "F64_LITERAL", "I32_LITERAL", "I64_LITERAL"} ->
            IF meta.kind # "literal" THEN Throw(s, TypeError("node.meta is null"))
            ELSE literalOf(op(s, meta.runType \o ".const"), meta.runType, meta.value, "value")
       [] ASType = "IF" ->
            LET tested == generateCondition(s, child, depth)
            IN op(generate(byte(op(tested, "if"), "void", "block_type"), Child(s, n, 2),
                           depth + 1),
                  "end")
       [] ASType = "LOOP" ->
            IF meta.kind # "loop" THEN Throw(s, TypeError("node.meta is null"))
            ELSE LET entered == byte(op(byte(op([s EXCEPT !.nodes[n].meta.depth =
                                                             containerDepth(depth)],
                                                "block"),
                                             runType, "block_type"),
                                        "loop"),
                                     runType, "block_type")
                 IN op(op(varuintOf(op(generate(entered, child, depth + 2), "br"), 0,
                                    "relative_depth"),
                          "end"),
                       "end")
       [] ASType = "MEMORY_ACCESS" -> generateMemoryAccess(s, n, depth)
       [] ASType = "NEG" ->
            IF s.nodes[child].meta.kind # "literal"
            THEN Throw(s, TypeError("children[0].meta is null"))
            ELSE literalOf(op(s, runType \o ".const"), runType,
                           Minus(s.nodes[child].meta.value), "value")
       [] ASType = "OR" ->
            IF meta.kind # "tempVariable" THEN Throw(generate(s, child, depth),
                                                     TypeError("node.meta is null"))
            ELSE LET left == varuintOf(op(generate(s, child, depth), "tee_local"),
                                       TempIndex(s, n), "local_index")
                     passed == varuintOf(op(byte(op(left, "if"), runType, "block_type"),
                                            "get_local"),
                                         TempIndex(s, n), "local_index")
                 IN op(generate(op(passed, "else"), Child(s, n, 2), depth + 1), "end")
       [] ASType = "PAGES_ALLOCATED" -> varuintOf(op(s, "current_memory"), 0, "reserved")
       [] ASType = "PASS" -> op(s, "nop")
       [] ASType = "RETURN" ->
            op(IF Len(children) = 1 THEN generate(s, child, depth) ELSE s, "return")
       [] ASType = "SUFFIX_OP" ->
            LET variable == Referent(s, child)
                childType == s.nodes[child].runType
                kept == IF dropValue THEN s
                        ELSE getVariable(s, variable.index, variable.isGlobal)
                changed == op(literalOf(op(getVariable(kept, variable.index, variable.isGlobal),
                                           childType \o ".const"),
                                        childType, NumberOf(childType, 1), "value"),
                              childType \o (IF s.nodes[n].token.text = "++" THEN ".add"
                                            ELSE ".sub"))
            IN IF s.nodes[child].meta.kind = "null"
               THEN Throw(s, TypeError("child.meta is null"))
               ELSE setVariable(changed, variable.index, variable.isGlobal, FALSE)
       [] OTHER -> s

\* generate(bytecode, node, depth)
generate(s, n, depth) ==
  LET done == generateCase(s, n, depth)
      dropValue ==
        /\ s.nodes[n].dropValue
        /\ s.nodes[n].ASType \notin {"ASSIGN", "BREAK", "YIELD", "RETURN", "SUFFIX_OP",
                                     "DEFINITION", "VARIABLE"}
  IN IF s.thrown # NoError THEN s
     ELSE IF n = 0 THEN Throw(s, TypeError("Cannot destructure node as it is null"))
     ELSE IF dropValue THEN op(done, "drop")
     ELSE done

(***************************************************************************)
(* /compiler/moduleCodeGen.js                                              *)
(***************************************************************************)
\* list[i].index = i + offset (i from 0) for every definition of the list
Indexed(table, list, offset) ==
  [d \in 1..Len(table) |->
     LET at == { i \in 1..Len(list) : list[i] = d }
     IN IF at = {} THEN table[d]
        ELSE [table[d] EXCEPT !.index = (CHOOSE i \in at : \A j \in at : j <= i) - 1 + offset]]

\* orderGlobals with `functions[i].index = i`: the imports are not counted.
orderGlobalsFromZero(s) ==
  LET fnImports == s.glob.imports.function
      varImports == s.glob.imports.global
      variables == s.scopes[1].variables
      functions == s.glob.functions
  IN [s EXCEPT !.defs = Indexed(Indexed(Indexed(Indexed(@, fnImports, 0),
                                                functions, 0),
                                        varImports, 0),
                                variables, Len(varImports))]

\* orderGlobals(scope): the imports of each kind are numbered from 0 and the
\* definitions of the module after them.
orderGlobals(s) ==
  LET fnImports == s.glob.imports.function
      varImports == s.glob.imports.global
      variables == s.scopes[1].variables
      functions == s.glob.functions
  IN [s EXCEPT !.defs = Indexed(Indexed(Indexed(Indexed(@, fnImports, 0),
                                                functions, Len(fnImports)),
                                        varImports, 0),
                                variables, Len(varImports))]

\* `fn ${definition.index} (${definition.name})`
FnPath(s, definition) ==
  "fn " \o ToString(s.defs[definition].index) \o " (" \o s.defs[definition].name \o ")"

generateTypeSection(s) ==
  LET signatures == s.glob.functionSignatures
      count == Len(signatures)
      RECURSIVE params(_, _, _)
      params(t, signature, i) ==
        IF i > Len(signature) THEN t
        ELSE params(byte(t, signature[i], "param_types"), signature, i + 1)
      RECURSIVE types(_, _)
      types(t, i) ==
        IF i > count THEN t
        ELSE LET signature == signatures[i]
                 opened == varuintOf(byte(section(t, "type " \o ToString(i - 1)),
                                          "func", "form"),
                                     Len(signature) - 1, "param_count")
                 listed == params(opened, signature, 2)
                 returned == IF signature[1] = "void" THEN varuintOf(listed, 0, "return_count")
                             ELSE byte(varuintOf(listed, 1, "return_count"), signature[1],
                                       "return_type")
             IN types(finishSection(returned), i + 1)
      opened == section(s, "type section")
  IN IF count > 0
     THEN finishSection(types(varuintOf(reserveSize(byte(opened, "section.type", "id"),
                                                    "payload_len"),
                                        count, "count"),
                              1))
     ELSE finishSection(opened)

generateImportSection(s) ==
  LET functions == s.glob.imports.function
      globals == s.glob.imports.global
      imported(list) == Len(list) > 0 /\ s.defs[list[1]].importSource # << >>
      table == imported(s.glob.defaultTable)
      memory == imported(s.glob.defaultMemory)
      count == Len(functions) + Len(globals) + (IF table THEN 1 ELSE 0)
               + (IF memory THEN 1 ELSE 0)
      RECURSIVE fns(_, _)
      fns(t, i) ==
        IF i > Len(functions) THEN t
        ELSE fns(finishSection(varuintOf(importDefinition(section(t, FnPath(t, functions[i])),
                                                          functions[i]),
                                         t.defs[functions[i]].signatureIndex, "index")),
                 i + 1)
      RECURSIVE vars_(_, _)
      vars_(t, i) ==
        IF i > Len(globals) THEN t
        ELSE vars_(finishSection(
                     byte(byte(importDefinition(
                                 section(t, "global " \o ToString(t.defs[globals[i]].index)
                                            \o " (" \o t.defs[globals[i]].name \o ")"),
                                 globals[i]),
                               t.defs[globals[i]].runType, "content_type"),
                          "global.immutable", "mutability")),
                   i + 1)
      tabled(t) ==
        IF ~table THEN t
        ELSE finishSection(resizableLimits(
               byte(importDefinition(section(t, "default_table"), t.glob.defaultTable[1]),
                    "anyfunc", "element_type"),
               t.glob.defaultTable[1]))
      stored(t) ==
        IF ~memory THEN t
        ELSE finishSection(resizableLimits(
               importDefinition(section(t, "default_memory"), t.glob.defaultMemory[1]),
               t.glob.defaultMemory[1]))
      opened == section(s, "import section")
  IN IF count > 0
     THEN finishSection(stored(tabled(vars_(fns(
            varuintOf(reserveSize(byte(opened, "section.import", "id"), "payload_len"),
                      count, "count"),
            1), 1))))
     ELSE finishSection(opened)

generateFunctionSection(s) ==
  LET functions == s.glob.functions
      RECURSIVE fns(_, _)
      fns(t, i) ==
        IF i > Len(functions) THEN t
        ELSE fns(varuintOf(t, t.defs[functions[i]].signatureIndex,
                           FnPath(t, functions[i]) \o "|type_index"),
                 i + 1)
      opened == section(s, "function section")
  IN IF Len(functions) > 0
     THEN finishSection(fns(varuintOf(reserveSize(byte(opened, "section.function", "id"),
                                                  "payload_len"),
                                      Len(functions), "count"),
                            1))
     ELSE finishSection(opened)

generateTableSection(s) ==
  LET table == s.glob.defaultTable
      opened == section(s, "table section")
  IN IF Len(table) > 0 /\ s.defs[table[1]].importSource = << >>
     THEN finishSection(resizableLimits(
            byte(varuintOf(reserveSize(byte(opened, "section.table", "id"), "payload_len"),
                           1, "count"),
                 "anyfunc", "elem_type"),
            table[1]))
     ELSE finishSection(opened)

generateMemorySection(s) ==
  LET memory == s.glob.defaultMemory
      opened == section(s, "memory section")
  IN IF Len(memory) > 0 /\ s.defs[memory[1]].importSource = << >>
     THEN finishSection(resizableLimits(
            varuintOf(reserveSize(byte(opened, "section.memory", "id"), "payload_len"),
                      1, "count"),
            memory[1]))
     ELSE finishSection(opened)

generateGlobalSection(s) ==
  LET variables == s.scopes[1].variables
      RECURSIVE globals(_, _)
      globals(t, i) ==
        IF i > Len(variables) THEN t
        ELSE LET definition == t.defs[variables[i]]
                 typed == byte(byte(section(t, definition.name), definition.runType,
                                    "content_type"),
                               IF definition.mutable THEN "global.mutable"
                               ELSE "global.immutable",
                               "mutability")
                 initialised == op(generate(section(typed, "init_expr"),
                                            definition.initializer, 0),
                                   "end")
             IN globals(finishSection(finishSection(initialised)), i + 1)
      opened == section(s, "global section")
  IN IF Len(variables) > 0
     THEN finishSection(globals(varuintOf(reserveSize(byte(opened, "section.global", "id"),
                                                      "payload_len"),
                                          Len(variables), "count"),
                                1))
     ELSE finishSection(opened)

generateExportSection(s) ==
  LET exports == s.glob.exports
      RECURSIVE exported(_, _)
      exported(t, i) ==
        IF i > Len(exports) THEN t
        ELSE LET definition == t.defs[exports[i]]
             IN exported(finishSection(
                           varuintOf(byte(string(section(t, textOf(definition.exportName[1])),
                                                 definition.exportName[1], "field"),
                                          "external_kind." \o definition.kind, "kind"),
                                     definition.index, "index")),
                         i + 1)
      opened == section(s, "export section")
  IN IF Len(exports) > 0
     THEN finishSection(exported(varuintOf(reserveSize(byte(opened, "section.export", "id"),
                                                       "payload_len"),
                                           Len(exports), "count"),
                                 1))
     ELSE finishSection(opened)

generateStartSection(s) ==
  LET startFn == lookup(s, 1, "main")
      opened == section(s, "start section")
  IN IF /\ startFn > 0
        /\ s.defs[startFn].kind = "function"
        /\ Len(s.defs[startFn].paramTypes) = 0
        /\ s.defs[startFn].returnType = "void"
     THEN finishSection(varuintOf(reserveSize(byte(opened, "section.start", "id"),
                                              "payload_len"),
                                  s.defs[startFn].index, "index"))
     ELSE finishSection(opened)

generateCodeSection(s) ==
  LET functions == s.glob.functions
      RECURSIVE declared(_, _, _, _)
      declared(t, locals, params, i) ==
        IF i > Len(locals) THEN t
        ELSE LET local == t.defs[locals[i]]
                 numbered == [t EXCEPT !.defs[locals[i]].index = i - 1]
             IN declared(IF i - 1 >= params
                         THEN byte(varuintOf(numbered, 1, "locals|" \o local.name \o "|count"),
                                   local.runType, "locals|" \o local.name \o "|type")
                         ELSE numbered,
                         locals, params, i + 1)
      RECURSIVE bodies(_, _)
      bodies(t, i) ==
        IF i > Len(functions) THEN t
        ELSE LET definition == t.defs[functions[i]]
                 locals == t.scopes[definition.scope].variables
                 params == Len(definition.paramTypes)
                 fnByteCode == varuintOf(reserveSize(section(t, FnPath(t, functions[i])),
                                                     "body_size"),
                                         Len(locals) - params, "local_count")
                 coded == op(generate(section(declared(fnByteCode, locals, params, 1), "code"),
                                      definition.body, 0),
                             "end")
             IN bodies(finishSection(finishSection(coded)), i + 1)
      opened == section(s, "code section")
  IN IF Len(functions) > 0
     THEN finishSection(bodies(varuintOf(reserveSize(byte(opened, "section.code", "id"),
                                                     "payload_len"),
                                         Len(functions), "count"),
                               1))
     ELSE finishSection(opened)

\* generateModule(root), with the tables parse left and the float buffer
generateModule(h, view) ==
  generateCodeSection(generateStartSection(generateExportSection(generateGlobalSection(
    generateMemorySection(generateTableSection(generateFunctionSection(
      generateImportSection(generateTypeSection(
        orderGlobals(WASMModuleHeader(Generation(h, view))))))))))))

\* Editor.compile: generateModule(root)
\* The container and the tables generateModule leaves.
Emitted(s) ==
  /\ Commit(s, "bytes")
  /\ bc' = [parts |-> s.parts, open |-> s.open, thrown |-> s.thrown]
  /\ byteView' = s.byteView

compileGenerate ==
  /\ pc = "generate"
  /\ Emitted(generateModule(Heap, byteView))
  /\ UNCHANGED <<runs, seen, source, lastIndex, tokens, index, node, out>>
  /\ UNCHANGED lebVars

\* Editor.compile: module.toByteArray()
compileBytes ==
  /\ pc = "bytes"
  /\ LET array == toByteArray(bc)
     IN /\ out' = array.bytes
        /\ err' = array.thrown
        /\ pc' = IF array.thrown = NoError THEN "done" ELSE "failed"
  /\ UNCHANGED <<runs, seen, source, lastIndex, tokens, index, node, nodes, scopes, defs, glob, bc, byteView>>
  /\ UNCHANGED lebVars

(***************************************************************************)
(* The lexer on its own: the editor is given one text out of every string  *)
(* of at most MaxLen code units over an alphabet that holds white space,   *)
(* a line terminator, the string delimiters, a digit, a letter and         *)
(* punctuation.                                                            *)
(***************************************************************************)
MaxLen == 3

\* space, line feed, ", \, ., 1, a, =
LexAlphabet == {32, 10, 34, 92, 46, 49, 97, 61}

LexSources == UNION { [1..k -> LexAlphabet] : k \in 0..MaxLen }

editLex == edit(LexSources, 1)

\* The editor before the first text is given.
Init == LEBIdle /\ PipeInit

SpecLex == Init /\ [][editLex]_vars

\* The code units of the texts of a list of tokens, one after the other.
RECURSIVE Joined(_)
Joined(list) ==
  IF Len(list) = 0 THEN << >>
  ELSE IF Len(list) = 1 THEN list[1].chars
  ELSE Joined(SubSeq(list, 1, Len(list) \div 2))
         \o Joined(SubSeq(list, Len(list) \div 2 + 1, Len(list)))

\* C5 as stated: lexify ends without an error, every token has a length of
\* at least 1 and a pos equal to the lengths of the tokens before it, and the
\* texts of all the tokens lexify returns, in order, are the source.
C5_EveryTokenText ==
  pc # "ready" =>
    /\ pc = "parse"
    /\ \A k \in 1..Len(tokens) :
         /\ tokens[k].length >= 1
         /\ tokens[k].pos = Len(Joined(SubSeq(tokens, 1, k - 1)))
    /\ Joined(tokens) = source

\* C5, amended: lexify ends without an error, every token has a length of at
\* least 1 and a pos equal to the lengths of the tokens before it, the last
\* token is the END_OF_INPUT sentinel whose text is a line feed that is not
\* part of the source, and the texts of the tokens before the sentinel, in
\* order, are the source.
C5_LexRoundTrip ==
  pc # "ready" =>
    /\ pc = "parse"
    /\ tokens # << >>
    /\ tokens[Len(tokens)].ASType = "END_OF_INPUT"
    /\ tokens[Len(tokens)].chars = <<10>>
    /\ \A k \in 1..Len(tokens) :
         /\ tokens[k].length >= 1
         /\ tokens[k].length = Len(tokens[k].chars)
         /\ tokens[k].pos = Len(Joined(SubSeq(tokens, 1, k - 1)))
    /\ Joined(SubSeq(tokens, 1, Len(tokens) - 1)) = source

\* A text of white space, a character no pattern knows and a word has been
\* lexified.
C5_Witness ==
  /\ pc = "parse"
  /\ \E i, j, k \in 1..Len(tokens) :
       /\ tokens[i].ASType = "WS"
       /\ tokens[j].ASType = "BAD_TOKEN"
       /\ tokens[k].ASType = "VARIABLE"

(***************************************************************************)
(* Modules: the editor is given one program of at most MaxStatements       *)
(* top-level statements, each an imported function, a function, a          *)
(* function with a function pointer, an imported global or a global, in    *)
(* any order, or one of a few sample programs.                             *)
(***************************************************************************)
MaxStatements == 3

StatementKinds == {"import function", "function", "function pointer", "import global", "global"}

\* The k-th statement of a program, of the given kind; its names end in the
\* digit k.
Statement(kind, k) ==
  LET d == 48 + k
  IN CASE kind = "import function" ->
            \* import hK: fn (i32) void from "m/hK" \n 
            <<105, 109, 112, 111, 114, 116, 32, 104>> \o <<d>> \o <<58, 32, 102, 110, 32, 40, 105, 51, 50, 41, 32, 118, 111, 105, 100, 32, 102, 114,
              111, 109, 32, 34, 109, 47, 104>> \o <<d>> \o <<34, 10>>
       [] kind = "function" ->
            \* fK: fn (a: i32) i32 { a } \n 
            <<102>> \o <<d>> \o <<58, 32, 102, 110, 32, 40, 97, 58, 32, 105, 51, 50, 41, 32, 105, 51, 50, 32, 123,
              32, 97, 32, 125, 10>>
       [] kind = "function pointer" ->
            \* pK: fn (a: i32) void { q: fn_ptr (i32) i32 = 0 } \n 
            <<112>> \o <<d>> \o <<58, 32, 102, 110, 32, 40, 97, 58, 32, 105, 51, 50, 41, 32, 118, 111, 105, 100,
              32, 123, 32, 113, 58, 32, 102, 110, 95, 112, 116, 114, 32, 40, 105, 51, 50, 41,
              32, 105, 51, 50, 32, 61, 32, 48, 32, 125, 10>>
       [] kind = "import global" ->
            \* import jK: i32 from "m/jK" \n 
            <<105, 109, 112, 111, 114, 116, 32, 106>> \o <<d>> \o <<58, 32, 105, 51, 50, 32, 102, 114, 111, 109, 32, 34, 109, 47, 106>> \o <<d>> \o <<34, 10>>
       [] kind = "global" ->
            \* gK: i32 = 5 \n 
            <<103>> \o <<d>> \o <<58, 32, 105, 51, 50, 32, 61, 32, 53, 10>>

RECURSIVE Program(_)
Program(kinds) ==
  IF kinds = << >> THEN << >>
  ELSE Program(SubSeq(kinds, 1, Len(kinds) - 1)) \o Statement(kinds[Len(kinds)], Len(kinds))

ModuleSamples ==
  { \* import h: fn () void from "mmm...mmm/h" \n f: fn (a: i32) i32 { a } \n
    \* (the module name is 130 letters m)
    <<105, 109, 112, 111, 114, 116, 32, 104, 58, 32, 102, 110, 32, 40, 41, 32, 118, 111, 105,
      100, 32, 102, 114, 111, 109, 32, 34, 109, 109, 109, 109, 109, 109, 109, 109, 109, 109,
      109, 109, 109, 109, 109, 109, 109, 109, 109, 109, 109, 109, 109, 109, 109, 109, 109, 109,
      109, 109, 109, 109, 109, 109, 109, 109, 109, 109, 109, 109, 109, 109, 109, 109, 109, 109,
      109, 109, 109, 109, 109, 109, 109, 109, 109, 109, 109, 109, 109, 109, 109, 109, 109, 109,
      109, 109, 109, 109, 109, 109, 109, 109, 109, 109, 109, 109, 109, 109, 109, 109, 109, 109,
      109, 109, 109, 109, 109, 109, 109, 109, 109, 109, 109, 109, 109, 109, 109, 109, 109, 109,
      109, 109, 109, 109, 109, 109, 109, 109, 109, 109, 109, 109, 109, 109, 109, 109, 109, 109,
      109, 109, 109, 109, 109, 109, 109, 109, 109, 109, 109, 109, 47, 104, 34, 10,
      102, 58, 32, 102, 110, 32, 40, 97, 58, 32, 105, 51, 50, 41, 32, 105, 51, 50, 32, 123, 32, 97, 32, 125, 10>>,
    \* default_memory 1 2 \n default_table 16 void \n
    \* f: fn (a: i32, b: f64) i32 { a + a * -2 } \n c: immutable f32 = 1.5 \n
    \* export f as "ff" \n
    <<100, 101, 102, 97, 117, 108, 116, 95, 109, 101, 109, 111, 114, 121, 32, 49, 32, 50, 10,
      100, 101, 102, 97, 117, 108, 116, 95, 116, 97, 98, 108, 101, 32, 49, 54, 32, 118, 111,
      105, 100, 10, 102, 58, 32, 102, 110, 32, 40, 97, 58, 32, 105, 51, 50, 44, 32, 98, 58, 32,
      102, 54, 52, 41, 32, 105, 51, 50, 32, 123, 32, 97, 32, 43, 32, 97, 32, 42, 32, 45, 50,
      32, 125, 10, 99, 58, 32, 105, 109, 109, 117, 116, 97, 98, 108, 101, 32, 102, 51, 50, 32,
      61, 32, 49, 46, 53, 10, 101, 120, 112, 111, 114, 116, 32, 102, 32, 97, 115, 32, 34, 102,
      102, 34, 10>>,
    \* f: fn () i32 { q: fn_ptr (i32, i32) i32 = 0  q(1, 2) } \n g: fn (x: i32, y: i32) i32 { x } \n 
    <<102, 58, 32, 102, 110, 32, 40, 41, 32, 105, 51, 50, 32, 123, 32, 113, 58, 32, 102, 110,
      95, 112, 116, 114, 32, 40, 105, 51, 50, 44, 32, 105, 51, 50, 41, 32, 105, 51, 50, 32, 61,
      32, 48, 32, 32, 113, 40, 49, 44, 32, 50, 41, 32, 125, 10, 103, 58, 32, 102, 110, 32, 40,
      120, 58, 32, 105, 51, 50, 44, 32, 121, 58, 32, 105, 51, 50, 41, 32, 105, 51, 50, 32, 123,
      32, 120, 32, 125, 10>>,
    \* f: fn () void { a # b } \n 
    <<102, 58, 32, 102, 110, 32, 40, 41, 32, 118, 111, 105, 100, 32, 123, 32, 97, 32, 35, 32,
      98, 32, 125, 10>>,
    \* f: fn () i32 { 1.5 } \n 
    <<102, 58, 32, 102, 110, 32, 40, 41, 32, 105, 51, 50, 32, 123, 32, 49, 46, 53, 32, 125, 10>> }

ModuleSources ==
  { Program(kinds) : kinds \in UNION { [1..n -> StatementKinds] : n \in 0..MaxStatements } }
    \cup ModuleSamples

\* Editor.edit followed by Editor.compile, a stage at a time.
Compile(texts, limit) ==
  \/ edit(texts, limit)
  \/ parseBegin
  \/ parseSkip
  \/ parseBadToken
  \/ parsePlace
  \/ parseTerminator
  \/ parseLeftOperand
  \/ parseChild
  \/ parseRoot
  \/ parseResolve
  \/ parseValidate
  \/ compileGenerate
  \/ compileBytes

NextModule == Compile(ModuleSources, 1)

SpecModule == Init /\ [][NextModule]_vars

\* generateModule has returned a container.
Generated == pc \in {"bytes", "done"}

\* The records a size was reserved for.
SizeRecords == { k \in 1..Len(bc.parts) : bc.parts[k].field \in {"payload_len", "body_size"} }

\* The path of the section a record was emitted in.
SectionOf(part) == SubSeq(part.path, 1, Len(part.path) - 1)

\* The number of bytes emitted after record k inside the section of record k
\* or a section nested in it.
BytesAfter(k) ==
  LET within(part) ==
        /\ Len(part.path) > Len(SectionOf(bc.parts[k]))
        /\ SubSeq(part.path, 1, Len(SectionOf(bc.parts[k]))) = SectionOf(bc.parts[k])
  IN Len(Flatten(SelectSeq(SubSeq(bc.parts, k + 1, Len(bc.parts)), within)))

\* C2: once a module is generated, every size record holds the unsigned
\* LEB128 encoding of the number of bytes emitted after it in its section,
\* nested sections and their own size records included; every section is
\* closed, the totalSize of the module is the number of bytes of all the
\* records, and toByteArray returns that many bytes.
C2_SizeBackPatching ==
  Generated =>
    /\ \A k \in SizeRecords :
         /\ bc.parts[k].value = BytesAfter(k)
         /\ bc.parts[k].bytes # << >>
         /\ DecodeUnsigned(bc.parts[k].bytes) = NumOfNat(bc.parts[k].value)
    /\ Len(bc.open) = 1
    /\ bc.open[1].totalSize = Len(Flatten(bc.parts))
    /\ pc = "done" => Len(out) = bc.open[1].totalSize

\* A module with a payload of at least 128 bytes, its size two bytes long,
\* and with a function body in the code section has been turned into bytes.
C2_Witness ==
  /\ pc = "done"
  /\ \E k \in SizeRecords : bc.parts[k].field = "payload_len" /\ Len(bc.parts[k].bytes) = 2
  /\ \E k \in SizeRecords : bc.parts[k].field = "body_size" /\ bc.parts[k].value > 0

\* The definitions in a list, as a set.
Listed(list) == { list[i] : i \in 1..Len(list) }

\* A list holds the given indices in order, starting from a first one.
Numbered(list, first) == \A i \in 1..Len(list) : defs[list[i]].index = first + i - 1

\* A list is in the order its definitions were made in.
InSourceOrder(list) == \A i, j \in 1..Len(list) : i < j => list[i] < list[j]

\* C3: once a module is generated, the imported functions have the indices
\* 0..M-1 in the order they were imported in, the functions of the module the
\* indices M..M+N-1 in the order they were defined in, and the same holds of
\* the imported globals and the globals of the module; every function and
\* every global is in one of the lists, so that the indices of a space are
\* pairwise distinct and fill [0, total).
C3_IndexSpaceOrdering ==
  Generated =>
    LET fnImports == glob.imports.function
        functions == glob.functions
        varImports == glob.imports.global
        variables == scopes[1].variables
        fns == Listed(fnImports) \cup Listed(functions)
        vars_ == Listed(varImports) \cup Listed(variables)
    IN /\ Numbered(fnImports, 0) /\ Numbered(functions, Len(fnImports))
       /\ Numbered(varImports, 0) /\ Numbered(variables, Len(varImports))
       /\ InSourceOrder(fnImports) /\ InSourceOrder(functions)
       /\ InSourceOrder(varImports) /\ InSourceOrder(variables)
       /\ fns = { d \in 1..Len(defs) : defs[d].kind = "function" }
       /\ vars_ = { d \in 1..Len(defs) : defs[d].kind = "global" /\ defs[d].isGlobal }
       /\ Cardinality(fns) = Len(fnImports) + Len(functions)
       /\ Cardinality(vars_) = Len(varImports) + Len(variables)
       /\ { defs[d].index : d \in fns } = 0..(Cardinality(fns) - 1)
       /\ { defs[d].index : d \in vars_ } = 0..(Cardinality(vars_) - 1)

\* A module has been generated whose source defines a function before it
\* imports one, and that has a global.
C3_Witness ==
  /\ Generated
  /\ glob.imports.function # << >>
  /\ glob.functions # << >>
  /\ glob.functions[1] < glob.imports.function[1]
  /\ Len(glob.imports.global) + Len(scopes[1].variables) > 0

\* The bytes of an entry of the type section.
TypeEntry(i) ==
  LET entry(part) ==
        /\ Len(part.path) >= 3
        /\ SubSeq(part.path, 1, 3) = <<"module", "type section", "type " \o ToString(i - 1)>>
  IN Flatten(SelectSeq(bc.parts, entry))

\* C4: from the moment the tables exist, the function signatures are
\* pairwise distinct, and every definition with a signature index has the
\* index of its signature, the return type followed by the parameter types;
\* in a generated module the type section has one entry for every signature
\* and no two entries are the same.
C4_SignatureInterning ==
  glob # << >> =>
    LET signatures == glob.functionSignatures
    IN /\ \A i, j \in 1..Len(signatures) : signatures[i] = signatures[j] => i = j
       /\ \A d \in 1..Len(defs) :
            defs[d].signatureIndex # -1 =>
              /\ defs[d].signatureIndex + 1 \in 1..Len(signatures)
              /\ signatures[defs[d].signatureIndex + 1]
                   = <<defs[d].returnType>> \o defs[d].paramTypes
       /\ Generated =>
            /\ \A i \in 1..Len(signatures) : TypeEntry(i) # << >>
            /\ TypeEntry(Len(signatures) + 1) = << >>
            /\ \A i, j \in 1..Len(signatures) : TypeEntry(i) = TypeEntry(j) => i = j

\* A module has been generated in which two definitions share one signature
\* and a third has another.
C4_Witness ==
  /\ Generated
  /\ \E d, e, f \in 1..Len(defs) :
       /\ d # e
       /\ defs[d].signatureIndex # -1
       /\ defs[d].signatureIndex = defs[e].signatureIndex
       /\ defs[f].signatureIndex \notin {-1, defs[d].signatureIndex}

(***************************************************************************)
(* Faults: the editor is given one of a few programs, each of which stops  *)
(* a different stage of the compilation, or none.                          *)
(***************************************************************************)
FaultSources ==
  { \* f: fn () void { a # b } \n
    <<102, 58, 32, 102, 110, 32, 40, 41, 32, 118, 111, 105, 100, 32, 123, 32, 97, 32, 35, 32,
      98, 32, 125, 10>>,
    \* f: fn () void { * } \n
    <<102, 58, 32, 102, 110, 32, 40, 41, 32, 118, 111, 105, 100, 32, 123, 32, 42, 32, 125, 10>>,
    \* f: fn () i32 { x } \n
    <<102, 58, 32, 102, 110, 32, 40, 41, 32, 105, 51, 50, 32, 123, 32, 120, 32, 125, 10>>,
    \* f: fn () i32 { 1.5 } \n
    <<102, 58, 32, 102, 110, 32, 40, 41, 32, 105, 51, 50, 32, 123, 32, 49, 46, 53, 32, 125, 10>>,
    \* f: fn () i32 { -2 } \n
    <<102, 58, 32, 102, 110, 32, 40, 41, 32, 105, 51, 50, 32, 123, 32, 45, 50, 32, 125, 10>>,
    \* f: fn () i32 { 1 or 1.0 } \n
    <<102, 58, 32, 102, 110, 32, 40, 41, 32, 105, 51, 50, 32, 123, 32, 49, 32, 111, 114, 32,
      49, 46, 48, 32, 125, 10>>,
    \* f: fn () i32 { 1 and 1.0 } \n
    <<102, 58, 32, 102, 110, 32, 40, 41, 32, 105, 51, 50, 32, 123, 32, 49, 32, 97, 110, 100,
      32, 49, 46, 48, 32, 125, 10>>,
    \* export default_memory as "m" \n
    <<101, 120, 112, 111, 114, 116, 32, 100, 101, 102, 97, 117, 108, 116, 95, 109, 101, 109,
      111, 114, 121, 32, 97, 115, 32, 34, 109, 34, 10>>,
    \* x: i32 = 5; \n
    <<120, 58, 32, 105, 51, 50, 32, 61, 32, 53, 59, 10>> }

NextFaults == Compile(FaultSources, 1)

SpecFaults == Init /\ [][NextFaults]_vars

\* C6: a compilation that fails fails with a CompileError that has a type,
\* and has produced no bytes.
C6_OnlyCompileErrors ==
  pc = "failed" => err.name = "CompileError" /\ err.type # "" /\ out = << >>

(***************************************************************************)
(* Expressions: the editor is given a function whose body is a chain of at *)
(* most MaxOperators infix operators over literals, or one of a few sample *)
(* programs.                                                               *)
(***************************************************************************)
MaxOperators == 3

\* +, -, *, = and or
ExprOperators == {<<43>>, <<45>>, <<42>>, <<61>>, <<111, 114>>}

\* a o1 b o2 c ...: the operands are the letters from a
RECURSIVE Chain(_)
Chain(operators) ==
  IF operators = << >> THEN <<97>>
  ELSE Chain(SubSeq(operators, 1, Len(operators) - 1))
         \o <<32>> \o operators[Len(operators)] \o <<32, 97 + Len(operators)>>

\* f: fn (a: i32, b: i32, c: i32, d: i32, e: i32) i32 { chain } \n
Expression(operators) ==
  <<102, 58, 32, 102, 110, 32, 40, 97, 58, 32, 105, 51, 50, 44, 32, 98, 58, 32, 105, 51, 50,
    44, 32, 99, 58, 32, 105, 51, 50, 44, 32, 100, 58, 32, 105, 51, 50, 44, 32, 101, 58, 32,
    105, 51, 50, 41, 32, 105, 51, 50, 32, 123, 32>>
    \o Chain(operators) \o <<32, 125, 10>>

ExpressionSamples ==
  { \* f: fn () i32 { 1 # 2 } \n
    <<102, 58, 32, 102, 110, 32, 40, 41, 32, 105, 51, 50, 32, 123, 32, 49, 32, 35, 32, 50, 32,
      125, 10>>,
    \* f: fn () i32 { -2 * (3 + 4) } \n
    <<102, 58, 32, 102, 110, 32, 40, 41, 32, 105, 51, 50, 32, 123, 32, 45, 50, 32, 42, 32, 40,
      51, 32, 43, 32, 52, 41, 32, 125, 10>>,
    \* f: fn (a: i32) i32 { if a 1 else if a - 1 2 else 3 } \n
    <<102, 58, 32, 102, 110, 32, 40, 97, 58, 32, 105, 51, 50, 41, 32, 105, 51, 50, 32, 123, 32,
      105, 102, 32, 97, 32, 49, 32, 101, 108, 115, 101, 32, 105, 102, 32, 97, 32, 45, 32, 49,
      32, 50, 32, 101, 108, 115, 101, 32, 51, 32, 125, 10>>,
    \* f: fn () void { a: i32 = 1 b: i32 = a = 2 - a - 1 } \n
    <<102, 58, 32, 102, 110, 32, 40, 41, 32, 118, 111, 105, 100, 32, 123, 32, 97, 58, 32, 105,
      51, 50, 32, 61, 32, 49, 32, 98, 58, 32, 105, 51, 50, 32, 61, 32, 97, 32, 61, 32, 50, 32,
      45, 32, 97, 32, 45, 32, 49, 32, 125, 10>> }

ExpressionSources ==
  { Expression(operators) :
      operators \in UNION { [1..n -> ExprOperators] : n \in 1..MaxOperators } }
    \cup ExpressionSamples

NextExpressions == Compile(ExpressionSources, 1)

SpecExpressions == Init /\ [][NextExpressions]_vars

\* A completed node is about to be placed in a parent, and the next token
\* takes a left operand.
AboutToPlace ==
  /\ Examined
  /\ nodes[node].complete
  /\ nodes[node].parent # 0
  /\ leftOperands(tokens[index].ASType) # 0

\* R binds tighter than L.
BindsTighter(L, R) ==
  \/ precedence(R) > precedence(L)
  \/ precedence(R) = precedence(L) /\ rightAssociative(R)

\* A node of the token adopts the completed node and takes its place under
\* its parent, and the token is used up; or the node is placed in its parent
\* and the token is examined again.
Climbed ==
  LET parent == nodes[node].parent
      L == nodes[parent].ASType
      R == tokens[index].ASType
      new == Len(nodes) + 1
  IN IF BindsTighter(L, R)
     THEN /\ Len(nodes') = new
          /\ nodes'[new].ASType = getASType(R, L)
          /\ nodes'[new].parent = parent
          /\ nodes'[node].parent = new
          /\ index' = index + 1
          /\ err' = NoError => nodes'[new].children = <<node>> /\ node' = new
     ELSE /\ Len(nodes') = Len(nodes)
          /\ nodes'[node].parent = parent
          /\ index' = index
          /\ err' = NoError =>
               /\ nodes'[parent].children = Append(nodes[parent].children, node)
               /\ node' = parent

\* An operator with a left operand whose k-th child is an operator of the
\* same precedence.
NestsAt(n, k) ==
  /\ leftOperands(nodes[n].ASType) # 0
  /\ Len(nodes[n].children) >= k
  /\ leftOperands(nodes[nodes[n].children[k]].ASType) # 0
  /\ precedence(nodes[nodes[n].children[k]].ASType) = precedence(nodes[n].ASType)

\* In the tree parse has built, operators of equal precedence nest to the
\* left unless they are right-associative, and then they nest to the right.
NestedByAssociativity ==
  pc = "resolve" =>
    \A n \in 1..Len(nodes) :
      /\ NestsAt(n, 1) => ~rightAssociative(nodes[n].ASType)
      /\ NestsAt(n, 2) => rightAssociative(nodes[n].ASType)

\* C7: whenever a completed node is about to be placed and the next token R
\* takes a left operand, a new node of R adopts it under its parent L iff R
\* has a higher precedence than L, or the same and is right-associative;
\* otherwise the node is placed in L and the token examined again. So
\* left-associative operators of equal precedence nest to the left and
\* right-associative ones to the right.
C7_PrecedenceClimbing ==
  /\ []NestedByAssociativity
  /\ [][AboutToPlace => Climbed]_vars

\* A chain has been parsed in which an operator has an operator of its own
\* precedence on its left and an assignment has an assignment on its right.
C7_Witness ==
  /\ pc = "resolve"
  /\ \E n, m \in 1..Len(nodes) :
       /\ NestsAt(n, 1) /\ nodes[n].ASType \in {"ADD", "SUB"}
       /\ NestsAt(m, 2) /\ nodes[m].ASType \in {"ASSIGN", "INIT_EXPR"}

(***************************************************************************)
(* Repeated compilation: the editor is given at most MaxCompiles texts,    *)
(* one after the other, each one of a few programs; seen is the list of    *)
(* the texts compiled before and of what became of them.                   *)
(***************************************************************************)
MaxCompiles == 3

RepeatSources ==
  { \* x: f64 = 1.7x64 \n
    <<120, 58, 32, 102, 54, 52, 32, 61, 32, 49, 46, 55, 120, 54, 52, 10>>,
    \* y: f32 = 2.5 \n
    <<121, 58, 32, 102, 51, 50, 32, 61, 32, 50, 46, 53, 10>>,
    \* f: fn () i32 { -2 } \n
    <<102, 58, 32, 102, 110, 32, 40, 41, 32, 105, 51, 50, 32, 123, 32, 45, 50, 32, 125, 10>>,
    \* a # b \n
    <<97, 32, 35, 32, 98, 10>> }

NextRepeat == Compile(RepeatSources, MaxCompiles)

SpecRepeat == Init /\ [][NextRepeat]_vars

\* C8: a compilation that has ended has ended as every earlier compilation
\* of the same text did, with the same bytes or with the same error,
\* whatever was compiled in between.
C8_Deterministic ==
  pc \in {"done", "failed"} =>
    \A i \in 1..Len(seen) : seen[i].text = source => seen[i].outcome = Outcome

\* A text has been compiled into bytes a second time, after the compilation
\* of another text failed in between.
C8_Witness ==
  /\ pc = "done"
  /\ Len(seen) = 2
  /\ seen[1].text = source
  /\ seen[2].text # source
  /\ seen[2].outcome.thrown # NoError
  /\ out # << >>

(***************************************************************************)
(* Loops: the editor is given a function of type i32 whose body is a loop  *)
(* of at most MaxLoopStatements statements, each a conditional break,      *)
(* return or continue or an inner loop around one, followed by a value or  *)
(* by nothing; or one of a few sample programs.                            *)
(***************************************************************************)
MaxLoopStatements == 2

LoopStatements ==
  { \* if (i) break
    <<105, 102, 32, 40, 105, 41, 32, 98, 114, 101, 97, 107>>,
    \* if (i) { return 1 }
    <<105, 102, 32, 40, 105, 41, 32, 123, 32, 114, 101, 116, 117, 114, 110, 32, 49, 32, 125>>,
    \* if (i) continue
    <<105, 102, 32, 40, 105, 41, 32, 99, 111, 110, 116, 105, 110, 117, 101>>,
    \* loop { if (i) break }
    <<108, 111, 111, 112, 32, 123, 32, 105, 102, 32, 40, 105, 41, 32, 98, 114, 101, 97, 107,
      32, 125>>,
    \* loop { if (i) { return 1 } }
    <<108, 111, 111, 112, 32, 123, 32, 105, 102, 32, 40, 105, 41, 32, 123, 32, 114, 101, 116,
      117, 114, 110, 32, 49, 32, 125, 32, 125>>,
    \* loop { if (i) continue }
    <<108, 111, 111, 112, 32, 123, 32, 105, 102, 32, 40, 105, 41, 32, 99, 111, 110, 116, 105,
      110, 117, 101, 32, 125>> }

\* nothing, or the value 7
LoopTails == {<< >>, <<32, 55>>}

\* The statements one after the other, each after a space.
RECURSIVE LoopBody(_)
LoopBody(statements) ==
  IF statements = << >> THEN << >>
  ELSE LoopBody(SubSeq(statements, 1, Len(statements) - 1))
         \o <<32>> \o statements[Len(statements)]

\* f: fn (i: i32) i32 { loop { statements } tail } \n
LoopProgram(statements, tail) ==
  <<102, 58, 32, 102, 110, 32, 40, 105, 58, 32, 105, 51, 50, 41, 32, 105, 51, 50, 32, 123, 32,
    108, 111, 111, 112, 32, 123>>
    \o LoopBody(statements) \o <<32, 125>> \o tail \o <<32, 125, 10>>

LoopSamples ==
  { \* f: fn () i32 { loop { # } } \n
    <<102, 58, 32, 102, 110, 32, 40, 41, 32, 105, 51, 50, 32, 123, 32, 108, 111, 111, 112, 32,
      123, 32, 35, 32, 125, 32, 125, 10>>,
    \* f: fn (i: i32) i32 { loop { if (i) { yield -1 } } } \n
    <<102, 58, 32, 102, 110, 32, 40, 105, 58, 32, 105, 51, 50, 41, 32, 105, 51, 50, 32, 123,
      32, 108, 111, 111, 112, 32, 123, 32, 105, 102, 32, 40, 105, 41, 32, 123, 32, 121, 105,
      101, 108, 100, 32, 45, 49, 32, 125, 32, 125, 32, 125, 10>>,
    \* f: fn (i: i32) i32 { loop if (i) { yield 1 } else { yield 2.5 } } \n
    <<102, 58, 32, 102, 110, 32, 40, 105, 58, 32, 105, 51, 50, 41, 32, 105, 51, 50, 32, 123,
      32, 108, 111, 111, 112, 32, 105, 102, 32, 40, 105, 41, 32, 123, 32, 121, 105, 101, 108,
      100, 32, 49, 32, 125, 32, 101, 108, 115, 101, 32, 123, 32, 121, 105, 101, 108, 100, 32,
      50, 46, 53, 32, 125, 32, 125, 10>>,
    \* f: fn (i: i32) void { loop { if (i) { return } } } \n
    <<102, 58, 32, 102, 110, 32, 40, 105, 58, 32, 105, 51, 50, 41, 32, 118, 111, 105, 100, 32,
      123, 32, 108, 111, 111, 112, 32, 123, 32, 105, 102, 32, 40, 105, 41, 32, 123, 32, 114,
      101, 116, 117, 114, 110, 32, 125, 32, 125, 32, 125, 10>> }

LoopSources ==
  { LoopProgram(statements, tail) :
      statements \in UNION { [1..n -> LoopStatements] : n \in 1..MaxLoopStatements },
      tail \in LoopTails }
    \cup LoopSamples

NextLoops == Compile(LoopSources, 1)

SpecLoops == Init /\ [][NextLoops]_vars

\* The nearest ancestor of a node that is of a type, 0 if there is none.
RECURSIVE Enclosing(_, _)
Enclosing(n, type) ==
  IF nodes[n].parent = 0 THEN 0
  ELSE IF nodes[nodes[n].parent].ASType = type THEN nodes[n].parent
  ELSE Enclosing(nodes[n].parent, type)

\* The ancestors of a node.
RECURSIVE Ancestors(_)
Ancestors(n) ==
  IF nodes[n].parent = 0 THEN {} ELSE {nodes[n].parent} \cup Ancestors(nodes[n].parent)

Loops == { l \in 1..Len(nodes) : nodes[l].ASType = "LOOP" }

\* A loop has a break or a yield of its own.
OwnExit(l) ==
  \E n \in 1..Len(nodes) : nodes[n].ASType \in {"BREAK", "YIELD"} /\ Enclosing(n, "LOOP") = l

\* A return is nested in a loop.
NestedReturn(l) ==
  \E n \in 1..Len(nodes) : nodes[n].ASType = "RETURN" /\ l \in Ancestors(n)

\* The return type of the function a node is in.
ReturnTypeAt(n) == defs[nodes[Enclosing(n, "FN")].meta.definition].returnType

\* The program has been validated.
Validated == pc \in {"generate", "bytes", "done"}

\* Some loop has no break or yield of its own and no return nested in it.
Endless == \E l \in Loops : ~OwnExit(l) /\ ~NestedReturn(l)

\* In a validated program every loop has a break or yield of its own or a
\* nested return, and one that has no break or yield of its own always
\* escapes and has the return type of its function.
LoopsEscape ==
  Validated =>
    \A l \in Loops :
      /\ OwnExit(l) \/ NestedReturn(l)
      /\ ~OwnExit(l) => nodes[l].alwaysEscapes /\ nodes[l].runType = ReturnTypeAt(l)

\* A node is a statement of a block and not the last one.
Followed(n) ==
  /\ nodes[n].parent # 0
  /\ nodes[nodes[n].parent].ASType = "BLOCK"
  /\ nodes[nodes[n].parent].children[Len(nodes[nodes[n].parent].children)] # n

\* No statement comes after a loop that can only be left by a return: the
\* statements of the programs given escape in no other way, so that the
\* bodies of their loops validate.
BodiesValidate == \A l \in Loops : ~OwnExit(l) /\ NestedReturn(l) => ~Followed(l)

\* C9: the validation of a program raises Infinite Loop only if some loop
\* has no break or yield of its own (one of an inner loop does not count) and
\* no return nested in it, and it does raise it if there is such a loop and
\* the bodies of the loops validate; a loop of a validated program with a
\* return and no break or yield of its own always escapes and has the
\* return type of its function.
C9_InfiniteLoop ==
  /\ []LoopsEscape
  /\ [][pc = "validate" =>
          /\ err' = CompileError("Infinite Loop") => Endless
          /\ Endless /\ BodiesValidate => err' = CompileError("Infinite Loop")]_vars

\* A program has been validated in which a loop with a return has an inner
\* loop with a break of its own and none of its own.
C9_Witness ==
  /\ Validated
  /\ \E l, m \in Loops :
       /\ l \in Ancestors(m)
       /\ ~OwnExit(l) /\ NestedReturn(l) /\ nodes[l].runType = "i32"
       /\ OwnExit(m) /\ ~NestedReturn(m)

(***************************************************************************)
(* Assignments: the editor is given a program with an imported global, an  *)
(* immutable and a mutable global and a function with a parameter, an      *)
(* immutable and a mutable local, the last statement of which assigns a    *)
(* value to one of them, on its own or as the value of another assignment; *)
(* or one of a few sample programs.                                        *)
(***************************************************************************)
\* j, g, h, a, b, p
AssignTargets == {<<106>>, <<103>>, <<104>>, <<97>>, <<98>>, <<112>>}

\* 1, p, 2.5
AssignValues == {<<49>>, <<112>>, <<50, 46, 53>>}

\* nothing, or b =
AssignOuter == {<< >>, <<98, 32, 61, 32>>}

\* import j: i32 from "m/j" \n g: immutable i32 = 5 \n h: i32 = 6 \n
\* f: fn (p: i32) void { a: immutable i32 = 5 b: i32 = 6 outer target = value } \n
AssignProgram(outer, target, value) ==
  <<105, 109, 112, 111, 114, 116, 32, 106, 58, 32, 105, 51, 50, 32, 102, 114, 111, 109, 32, 34,
    109, 47, 106, 34, 10, 103, 58, 32, 105, 109, 109, 117, 116, 97, 98, 108, 101, 32, 105, 51,
    50, 32, 61, 32, 53, 10, 104, 58, 32, 105, 51, 50, 32, 61, 32, 54, 10, 102, 58, 32, 102,
    110, 32, 40, 112, 58, 32, 105, 51, 50, 41, 32, 118, 111, 105, 100, 32, 123, 32, 97, 58, 32,
    105, 109, 109, 117, 116, 97, 98, 108, 101, 32, 105, 51, 50, 32, 61, 32, 53, 32, 98, 58, 32,
    105, 51, 50, 32, 61, 32, 54, 32>>
    \o outer \o target \o <<32, 61, 32>> \o value \o <<32, 125, 10>>

AssignSamples ==
  { \* f: fn () void { a # b } \n
    <<102, 58, 32, 102, 110, 32, 40, 41, 32, 118, 111, 105, 100, 32, 123, 32, 97, 32, 35, 32,
      98, 32, 125, 10>>,
    \* f: fn () void { a: immutable i32 = -5 } \n
    <<102, 58, 32, 102, 110, 32, 40, 41, 32, 118, 111, 105, 100, 32, 123, 32, 97, 58, 32, 105,
      109, 109, 117, 116, 97, 98, 108, 101, 32, 105, 51, 50, 32, 61, 32, 45, 53, 32, 125, 10>>,
    \* default_memory 1 void \n f: fn () void { q: immutable ptr i32 = 0 q[0] = 1 } \n
    <<100, 101, 102, 97, 117, 108, 116, 95, 109, 101, 109, 111, 114, 121, 32, 49, 32, 118, 111,
      105, 100, 10, 102, 58, 32, 102, 110, 32, 40, 41, 32, 118, 111, 105, 100, 32, 123, 32,
      113, 58, 32, 105, 109, 109, 117, 116, 97, 98, 108, 101, 32, 112, 116, 114, 32, 105, 51,
      50, 32, 61, 32, 48, 32, 113, 91, 48, 93, 32, 61, 32, 49, 32, 125, 10>> }

AssignSources ==
  { AssignProgram(outer, target, value) :
      outer \in AssignOuter, target \in AssignTargets, value \in AssignValues }
    \cup AssignSamples

NextAssign == Compile(AssignSources, 1)

SpecAssign == Init /\ [][NextAssign]_vars

\* The definition a node refers to or makes.
DefinitionOf(n) == defs[nodes[n].meta.definition]

\* An assignment to a reference to a variable (not to a definition and not
\* to a memory access) that was not defined as mutable.
ToImmutable(n) ==
  /\ nodes[n].ASType = "ASSIGN"
  /\ nodes[nodes[n].children[1]].ASType = "VARIABLE"
  /\ ~DefinitionOf(nodes[n].children[1]).mutable

\* The initial assignment of an immutable definition.
InitialOfImmutable(n) ==
  /\ nodes[n].ASType = "ASSIGN"
  /\ nodes[nodes[n].children[1]].ASType = "DEFINITION"
  /\ ~DefinitionOf(nodes[n].children[1]).mutable

\* C10: the validation of a program raises Assignment To Immutable iff it has
\* an assignment to a reference to a variable whose definition is not
\* mutable: an immutable local or global or an imported global; the initial
\* assignment of an immutable definition is no such assignment, and programs
\* with one are validated.
C10_AssignmentToImmutable ==
  [][pc = "validate" =>
       (err' = CompileError("Assignment To Immutable")
          <=> \E n \in 1..Len(nodes) : ToImmutable(n))]_vars

\* The validation of a program with the initial assignment of an immutable
\* local and an assignment to an imported global has raised Assignment To
\* Immutable.
C10_Witness ==
  /\ pc = "failed"
  /\ err = CompileError("Assignment To Immutable")
  /\ \E n, m \in 1..Len(nodes) :
       /\ InitialOfImmutable(n)
       /\ ToImmutable(m)
       /\ DefinitionOf(nodes[m].children[1]).importSource # << >>

(***************************************************************************)
(* References: the editor is given a program with a global g, a function   *)
(* with a parameter a and a local b of an inner block, and a reference to  *)
(* one of a few names in the function, in the inner block or in the        *)
(* initializer of a global; or one of a few sample programs.               *)
(***************************************************************************)
\* a, g, b, x, f, constructor, valueOf
ReferenceNames ==
  {<<97>>, <<103>>, <<98>>, <<120>>, <<102>>,
   <<99, 111, 110, 115, 116, 114, 117, 99, 116, 111, 114>>,
   <<118, 97, 108, 117, 101, 79, 102>>}

\* The program with a reference to a name at a place:
\*   g: i32 = 1 \n f: fn (a: i32) i32 { { b: i32 = 2 } name } \n
\*   g: i32 = 1 \n f: fn (a: i32) i32 { { b: i32 = 2 name } 0 } \n
\*   g: i32 = 1 \n f: fn (a: i32) i32 { { b: i32 = 2 } 0 } \n k: i32 = name \n
ReferenceProgram(where, name) ==
  CASE where = "function" ->
         <<103, 58, 32, 105, 51, 50, 32, 61, 32, 49, 10, 102, 58, 32, 102, 110, 32, 40, 97, 58,
           32, 105, 51, 50, 41, 32, 105, 51, 50, 32, 123, 32, 123, 32, 98, 58, 32, 105, 51, 50,
           32, 61, 32, 50, 32, 125, 32>>
           \o name \o <<32, 125, 10>>
    [] where = "block" ->
         <<103, 58, 32, 105, 51, 50, 32, 61, 32, 49, 10, 102, 58, 32, 102, 110, 32, 40, 97, 58,
           32, 105, 51, 50, 41, 32, 105, 51, 50, 32, 123, 32, 123, 32, 98, 58, 32, 105, 51, 50,
           32, 61, 32, 50, 32>>
           \o name \o <<32, 125, 32, 48, 32, 125, 10>>
    [] where = "global" ->
         <<103, 58, 32, 105, 51, 50, 32, 61, 32, 49, 10, 102, 58, 32, 102, 110, 32, 40, 97, 58,
           32, 105, 51, 50, 41, 32, 105, 51, 50, 32, 123, 32, 123, 32, 98, 58, 32, 105, 51, 50,
           32, 61, 32, 50, 32, 125, 32, 48, 32, 125, 10, 107, 58, 32, 105, 51, 50, 32, 61, 32>>
           \o name \o <<10>>

ReferenceSamples ==
  { \* f: fn () void { a # b } \n
    <<102, 58, 32, 102, 110, 32, 40, 41, 32, 118, 111, 105, 100, 32, 123, 32, 97, 32, 35, 32,
      98, 32, 125, 10>>,
    \* f: fn () i32 { h(-1) } \n h: fn (a: i32) i32 { a } \n
    <<102, 58, 32, 102, 110, 32, 40, 41, 32, 105, 51, 50, 32, 123, 32, 104, 40, 45, 49, 41, 32,
      125, 10, 104, 58, 32, 102, 110, 32, 40, 97, 58, 32, 105, 51, 50, 41, 32, 105, 51, 50, 32,
      123, 32, 97, 32, 125, 10>>,
    \* default_memory 1 void \n f: fn () i32 { q: ptr i32 = 0 q[1] } \n
    <<100, 101, 102, 97, 117, 108, 116, 95, 109, 101, 109, 111, 114, 121, 32, 49, 32, 118, 111,
      105, 100, 10, 102, 58, 32, 102, 110, 32, 40, 41, 32, 105, 51, 50, 32, 123, 32, 113, 58,
      32, 112, 116, 114, 32, 105, 51, 50, 32, 61, 32, 48, 32, 113, 91, 49, 93, 32, 125, 10>>,
    \* f: fn () i32 { h() } \n
    <<102, 58, 32, 102, 110, 32, 40, 41, 32, 105, 51, 50, 32, 123, 32, 104, 40, 41, 32, 125, 10>> }

ReferenceSources ==
  { ReferenceProgram(where, name) :
      where \in {"function", "block", "global"}, name \in ReferenceNames }
    \cup ReferenceSamples

NextReferences == Compile(ReferenceSources, 1)

SpecReferences == Init /\ [][NextReferences]_vars

\* The scopes a name is looked up in: a scope and its ancestors.
RECURSIVE ScopeChain(_)
ScopeChain(scope) ==
  IF scope = 0 THEN {} ELSE {scope} \cup ScopeChain(scopes[scope].parent)

\* The definitions recorded in the scope of a node or in one of its
\* ancestors that have the name the node refers to.
Referable(n) ==
  { d \in 1..Len(defs) :
      /\ defs[d].name = nodes[n].token.text
      /\ \E scope \in ScopeChain(nodes[n].scope) :
           \E i \in 1..Len(scopes[scope].definitions) : scopes[scope].definitions[i] = d }

\* The references: variables, calls and memory accesses that are not the
\* name of a definition or declaration.
References ==
  { n \in 1..Len(nodes) :
      /\ isReference(nodes[n].ASType)
      /\ nodes[n].parent # 0
      /\ ~createsName(nodes[nodes[n].parent].ASType) }

\* After resolve every reference is bound to a definition of its name in its
\* scope or in an ancestor of it.
ReferencesBound ==
  pc = "validate" =>
    \A n \in References :
      /\ nodes[n].meta.kind = "definition"
      /\ nodes[n].meta.definition \in Referable(n)

\* C11: after resolve has succeeded every reference is bound to a definition
\* that has the name of the reference and was recorded in the scope of the
\* reference or in an ancestor of it, and resolve raises Unresolvable
\* Reference if some reference has no such definition.
C11_ReferenceBinding ==
  /\ []ReferencesBound
  /\ [][pc = "resolve" /\ (\E n \in References : Referable(n) = {})
          => err' = CompileError("Unresolvable Reference")]_vars

(***************************************************************************)
(* Memory: the editor is given a program with a default memory and a       *)
(* function that stores a value through a pointer of one of the storage    *)
(* types and loads it again, at a static offset or without one; or one of  *)
(* a few sample programs.                                                  *)
(***************************************************************************)
\* The storage types of pointers, each with a literal of its value type.
PointerTypes ==
  { \* i32, 1
    [storage |-> <<105, 51, 50>>, value |-> <<49>>],
    \* i64, 1x64
    [storage |-> <<105, 54, 52>>, value |-> <<49, 120, 54, 52>>],
    \* f32, 1.5
    [storage |-> <<102, 51, 50>>, value |-> <<49, 46, 53>>],
    \* f64, 1.5x64
    [storage |-> <<102, 54, 52>>, value |-> <<49, 46, 53, 120, 54, 52>>],
    \* i32_s8, 1
    [storage |-> <<105, 51, 50, 95, 115, 56>>, value |-> <<49>>],
    \* i32_s16, 1
    [storage |-> <<105, 51, 50, 95, 115, 49, 54>>, value |-> <<49>>],
    \* i32_u8, 1
    [storage |-> <<105, 51, 50, 95, 117, 56>>, value |-> <<49>>],
    \* i32_u16, 1
    [storage |-> <<105, 51, 50, 95, 117, 49, 54>>, value |-> <<49>>],
    \* i64_s8, 1x64
    [storage |-> <<105, 54, 52, 95, 115, 56>>, value |-> <<49, 120, 54, 52>>],
    \* i64_s16, 1x64
    [storage |-> <<105, 54, 52, 95, 115, 49, 54>>, value |-> <<49, 120, 54, 52>>],
    \* i64_s32, 1x64
    [storage |-> <<105, 54, 52, 95, 115, 51, 50>>, value |-> <<49, 120, 54, 52>>],
    \* i64_u8, 1x64
    [storage |-> <<105, 54, 52, 95, 117, 56>>, value |-> <<49, 120, 54, 52>>],
    \* i64_u16, 1x64
    [storage |-> <<105, 54, 52, 95, 117, 49, 54>>, value |-> <<49, 120, 54, 52>>],
    \* i64_u32, 1x64
    [storage |-> <<105, 54, 52, 95, 117, 51, 50>>, value |-> <<49, 120, 54, 52>>] }

\* no offset, or ; followed by 0, 1, 2, 4, 6, 8, 12 or 4294967295
StaticOffsets ==
  {<< >>, <<59, 32, 48>>, <<59, 32, 49>>, <<59, 32, 50>>, <<59, 32, 52>>, <<59, 32, 54>>,
   <<59, 32, 56>>, <<59, 32, 49, 50>>, <<59, 32, 52, 50, 57, 52, 57, 54, 55, 50, 57, 53>>}

\* default_memory 1 void \n
\* f: fn () void { q: ptr storage = 0 q[1 offset] = value q[1 offset] } \n
MemoryProgram(type, offset) ==
  <<100, 101, 102, 97, 117, 108, 116, 95, 109, 101, 109, 111, 114, 121, 32, 49, 32, 118, 111,
    105, 100, 10, 102, 58, 32, 102, 110, 32, 40, 41, 32, 118, 111, 105, 100, 32, 123, 32, 113,
    58, 32, 112, 116, 114, 32>>
    \o type.storage \o <<32, 61, 32, 48, 32, 113, 91, 49>> \o offset \o <<93, 32, 61, 32>>
    \o type.value \o <<32, 113, 91, 49>> \o offset \o <<93, 32, 125, 10>>

MemorySamples ==
  { \* f: fn () void { a # b } \n
    <<102, 58, 32, 102, 110, 32, 40, 41, 32, 118, 111, 105, 100, 32, 123, 32, 97, 32, 35, 32,
      98, 32, 125, 10>>,
    \* default_memory 1 void \n f: fn (a: i32) i32 { q: ptr i32_s16 = -2 q[a + 1; 2] } \n
    <<100, 101, 102, 97, 117, 108, 116, 95, 109, 101, 109, 111, 114, 121, 32, 49, 32, 118, 111,
      105, 100, 10, 102, 58, 32, 102, 110, 32, 40, 97, 58, 32, 105, 51, 50, 41, 32, 105, 51,
      50, 32, 123, 32, 113, 58, 32, 112, 116, 114, 32, 105, 51, 50, 95, 115, 49, 54, 32, 61,
      32, 45, 50, 32, 113, 91, 97, 32, 43, 32, 49, 59, 32, 50, 93, 32, 125, 10>> }

MemorySources ==
  { MemoryProgram(type, offset) : type \in PointerTypes, offset \in StaticOffsets }
    \cup MemorySamples

NextMemory == Compile(MemorySources, 1)

SpecMemory == Init /\ [][NextMemory]_vars

\* The number of bytes of a storage type: the bits after the sign, or else
\* those of the value type, by 8.
StorageBytes(storageType) ==
  CASE storageType \in {"i32_s8", "i32_u8", "i64_s8", "i64_u8"} -> 1
    [] storageType \in {"i32_s16", "i32_u16", "i64_s16", "i64_u16"} -> 2
    [] storageType \in {"i32", "f32", "i64_s32", "i64_u32"} -> 4
    [] storageType \in {"i64", "f64"} -> 8

\* A decimal numeral modulo 8.
RECURSIVE DecimalMod8(_)
DecimalMod8(digits) ==
  IF digits = << >> THEN 0
  ELSE (10 * DecimalMod8(SubSeq(digits, 1, Len(digits) - 1)) + digits[Len(digits)] - 48) % 8

\* The static offset of a memory access modulo 8: 0 if none is given.
OffsetMod8(n) ==
  LET address == nodes[n].children[1]
  IN IF Len(nodes[address].children) < 2 THEN 0
     ELSE DecimalMod8(nodes[nodes[address].children[2]].token.chars)

\* log2 of the largest power of two that is at most size and divides an
\* offset, given modulo 8.
LargestAlignment(size, offset) ==
  CHOOSE a \in 0..3 :
    /\ 2 ^ a <= size /\ offset % (2 ^ a) = 0
    /\ \A c \in 0..3 : 2 ^ c <= size /\ offset % (2 ^ c) = 0 => c <= a

\* The memory accesses of the program, in the order of their nodes, and the
\* loads and stores emitted, in the order of the code.
MemoryAccesses == SelectSeq([n \in 1..Len(nodes) |-> n],
                            LAMBDA n : nodes[n].ASType = "MEMORY_ACCESS")

IsMemoryOp(part) ==
  /\ part.field = "op"
  /\ \E type \in {"i32", "i64", "f32", "f64"}, kind \in {".load", ".store"} :
       \E rest \in {"", "8", "16", "32", "8_s", "8_u", "16_s", "16_u", "32_s", "32_u"} :
         part.value = type \o kind \o rest

MemoryOps == SelectSeq([k \in 1..Len(bc.parts) |-> k], LAMBDA k : IsMemoryOp(bc.parts[k]))

\* C12: in a generated module every load and every store is followed by an
\* alignment that is log2 of the largest power of two that is at most the
\* storage size of its pointer and divides its static offset (0 without
\* one), and by that offset.
C12_AlignmentBound ==
  Generated =>
    /\ Len(MemoryOps) = Len(MemoryAccesses)
    /\ \A i \in 1..Len(MemoryOps) :
         LET k == MemoryOps[i]
             n == MemoryAccesses[i]
             expected == LargestAlignment(StorageBytes(DefinitionOf(n).storageType),
                                          OffsetMod8(n))
         IN /\ bc.parts[k + 1].field = "flags"
            /\ bc.parts[k + 1].bytes = <<expected>>
            /\ bc.parts[k + 2].field = "offset"
            /\ Digit(DecodeUnsigned(bc.parts[k + 2].bytes), 1) % 8 = OffsetMod8(n)

\* A module has been generated that stores and loads 8 bytes at an offset
\* that 4 divides and 8 does not.
C12_Witness ==
  /\ Generated
  /\ Len(MemoryOps) = 2
  /\ \A i \in 1..2 : /\ StorageBytes(DefinitionOf(MemoryAccesses[i]).storageType) = 8
                     /\ OffsetMod8(MemoryAccesses[i]) = 4
                     /\ bc.parts[MemoryOps[i] + 1].bytes = <<2>>

(***************************************************************************)
(* Locals: the editor is given a program with a default memory and a       *)
(* function of zero, one or two parameters whose body defines locals, some *)
(* of them in a nested block, some of them with a value that needs a       *)
(* temporary; or one of a few sample programs.                             *)
(***************************************************************************)
MaxLocalStatements == 2

LocalStatements ==
  { \* u: i32 = 1
    <<117, 58, 32, 105, 51, 50, 32, 61, 32, 49>>,
    \* v: f64 = 1.5x64
    <<118, 58, 32, 102, 54, 52, 32, 61, 32, 49, 46, 53, 120, 54, 52>>,
    \* if (1) { w: i64 = 1x64 }
    <<105, 102, 32, 40, 49, 41, 32, 123, 32, 119, 58, 32, 105, 54, 52, 32, 61, 32, 49, 120, 54,
      52, 32, 125>>,
    \* k: i32 = 1 or 2
    <<107, 58, 32, 105, 51, 50, 32, 61, 32, 49, 32, 111, 114, 32, 50>>,
    \* q: ptr i32 = 0 m: i32 = q[0] = 3
    <<113, 58, 32, 112, 116, 114, 32, 105, 51, 50, 32, 61, 32, 48, 32, 109, 58, 32, 105, 51,
      50, 32, 61, 32, 113, 91, 48, 93, 32, 61, 32, 51>>,
    \* t: f32 = 2.5 t = t
    <<116, 58, 32, 102, 51, 50, 32, 61, 32, 50, 46, 53, 32, 116, 32, 61, 32, 116>> }

LocalParameters ==
  { \* 
    <<>>,
    \* a: i32
    <<97, 58, 32, 105, 51, 50>>,
    \* a: i32, b: f32
    <<97, 58, 32, 105, 51, 50, 44, 32, 98, 58, 32, 102, 51, 50>> }

\* The statements one after the other, each after a space.
RECURSIVE LocalBody(_)
LocalBody(statements) ==
  IF statements = << >> THEN << >>
  ELSE LocalBody(SubSeq(statements, 1, Len(statements) - 1))
         \o <<32>> \o statements[Len(statements)]

\* default_memory 1 void \n f: fn (parameters) void { statements } \n
LocalProgram(parameters, statements) ==
  <<100, 101, 102, 97, 117, 108, 116, 95, 109, 101, 109, 111, 114, 121, 32, 49, 32, 118, 111,
    105, 100, 10, 102, 58, 32, 102, 110, 32, 40>>
    \o parameters \o <<41, 32, 118, 111, 105, 100, 32, 123>> \o LocalBody(statements) \o <<32, 125, 10>>

LocalSamples ==
  { \* f: fn () void { a # b } \n
    <<102, 58, 32, 102, 110, 32, 40, 41, 32, 118, 111, 105, 100, 32, 123, 32, 97, 32, 35, 32,
      98, 32, 125, 10>>,
    \* f: fn (a: i32) i32 { u: i32 = a or -1 u } \n g: fn (b: f64, c: i32) void { v: f64 = b or b c++ } \n
    <<102, 58, 32, 102, 110, 32, 40, 97, 58, 32, 105, 51, 50, 41, 32, 105, 51, 50, 32, 123, 32,
      117, 58, 32, 105, 51, 50, 32, 61, 32, 97, 32, 111, 114, 32, 45, 49, 32, 117, 32, 125, 10,
      103, 58, 32, 102, 110, 32, 40, 98, 58, 32, 102, 54, 52, 44, 32, 99, 58, 32, 105, 51, 50,
      41, 32, 118, 111, 105, 100, 32, 123, 32, 118, 58, 32, 102, 54, 52, 32, 61, 32, 98, 32,
      111, 114, 32, 98, 32, 99, 43, 43, 32, 125, 10>> }

\* The statements of a body are different ones: each defines its own names.
LocalSources ==
  { LocalProgram(parameters, statements) :
      parameters \in LocalParameters,
      statements \in { list \in UNION { [1..n -> LocalStatements] : n \in 0..MaxLocalStatements } :
                         \A i, j \in 1..Len(list) : i # j => list[i] # list[j] } }
    \cup LocalSamples

NextLocals == Compile(LocalSources, 1)

SpecLocals == Init /\ [][NextLocals]_vars

\* The locals of a function, its parameters included.
LocalsOf(d) == scopes[defs[d].scope].variables

\* The parameter definitions of a function, in the order of its declaration.
ParameterNodes(d) ==
  LET fn == CHOOSE n \in 1..Len(nodes) :
              /\ nodes[n].ASType = "FN"
              /\ nodes[n].meta.kind = "definition"
              /\ nodes[n].meta.definition = d
  IN nodes[nodes[fn].children[1]].children

\* An anonymous temporary of the validator.
IsTemp(d) == defs[d].ASType = "VARIABLE"

\* The node that defines a local; nodes are numbered in source order.
DefinedAt(d) ==
  CHOOSE n \in 1..Len(nodes) :
    nodes[n].ASType = "DEFINITION" /\ nodes[n].meta.kind = "definition"
      /\ nodes[n].meta.definition = d

\* The records emitted for a function, in the order they were emitted in.
RecordsOf(d) ==
  SelectSeq(bc.parts, LAMBDA part : \E i \in 1..Len(part.path) : part.path[i] = FnPath(Heap, d))

Fielded(records, field) == SelectSeq(records, LAMBDA part : part.field = field)

\* The locals a function declares: those after its parameters.
DeclaredLocals(d) == SubSeq(LocalsOf(d), Len(defs[d].paramTypes) + 1, Len(LocalsOf(d)))

\* The locals that are given a value where they are defined.
Initialised(d) ==
  { nodes[nodes[n].children[1]].meta.definition :
      n \in { m \in 1..Len(nodes) :
                /\ nodes[m].ASType = "INIT_EXPR"
                /\ nodes[nodes[m].children[1]].meta.kind = "definition"
                /\ nodes[nodes[m].children[1]].meta.definition \in Listed(LocalsOf(d)) } }

\* C13: once a module is generated, for each function it defines, with P
\* parameters: the locals are numbered from 0 in the order of the list of
\* locals, the first P of them are the parameters in declaration order, the
\* locals the body defines follow in definition order, the temporaries of the
\* validator come last; the local_count emitted is the number of locals
\* minus P, one type is declared for each of these, in order; every local
\* index emitted in the body is below the number of locals, and the index of
\* every initialised local and every temporary is emitted as assigned.
C13_LocalIndexLayout ==
  Generated =>
    \A f \in 1..Len(glob.functions) :
      LET d == glob.functions[f]
          locals == LocalsOf(d)
          P == Len(defs[d].paramTypes)
          parameters == ParameterNodes(d)
          records == RecordsOf(d)
          declared == DeclaredLocals(d)
          types == SelectSeq(records,
                             LAMBDA part : \E i \in 1..Len(declared) :
                               part.field = "locals|" \o defs[declared[i]].name \o "|type")
          indices == { part.value : part \in Listed(Fielded(records, "local_index")) }
      IN /\ Len(parameters) = P
         /\ P <= Len(locals)
         /\ Numbered(locals, 0)
         /\ \A i \in 1..P : locals[i] = nodes[parameters[i]].meta.definition
         /\ \A i, j \in 1..Len(declared) :
              i < j => /\ IsTemp(declared[i]) => IsTemp(declared[j])
                       /\ ~IsTemp(declared[j]) => DefinedAt(declared[i]) < DefinedAt(declared[j])
         /\ Len(Fielded(records, "local_count")) = 1
         /\ Fielded(records, "local_count")[1].value = NumOfNat(Len(locals) - P)
         /\ Len(types) = Len(declared)
         /\ \A i \in 1..Len(declared) : types[i].value = defs[declared[i]].runType
         /\ indices \subseteq { NumOfNat(i) : i \in 0..(Len(locals) - 1) }
         /\ \A i \in 1..Len(declared) :
              (IsTemp(declared[i]) \/ declared[i] \in Initialised(d))
                => NumOfNat(defs[declared[i]].index) \in indices

\* A module has been generated for a function of two parameters whose body
\* defines a local and needs a temporary: the local is number 2, the
\* temporary number 3.
C13_Witness ==
  /\ Generated
  /\ \E f \in 1..Len(glob.functions) :
       LET d == glob.functions[f]
           locals == LocalsOf(d)
       IN /\ Len(defs[d].paramTypes) = 2
          /\ Len(locals) >= 4
          /\ ~IsTemp(locals[3])
          /\ IsTemp(locals[Len(locals)])
          /\ NumOfNat(Len(locals) - 1)
               \in { part.value : part \in Listed(Fielded(RecordsOf(d), "local_index")) }

(***************************************************************************)
(* Branches: the editor is given a function whose if/else, in the place of *)
(* a value or at the end of the body, has for each branch a block that     *)
(* ends in a value or in a return; or one of a few sample programs.        *)
(***************************************************************************)
\* The places of the if/else: the text before it and the text after it.
BranchPlaces ==
  { \* f: fn (c: i32) i32 { x: i32 =  ...  1 } \n
    [head |-> <<102, 58, 32, 102, 110, 32, 40, 99, 58, 32, 105, 51, 50, 41, 32, 105, 51, 50, 32, 123,
       32, 120, 58, 32, 105, 51, 50, 32, 61, 32>>,
     tail |-> <<32, 49, 32, 125, 10>>],
    \* f: fn (c: i32) i32 { x: f32 =  ...  1 } \n
    [head |-> <<102, 58, 32, 102, 110, 32, 40, 99, 58, 32, 105, 51, 50, 41, 32, 105, 51, 50, 32, 123,
       32, 120, 58, 32, 102, 51, 50, 32, 61, 32>>,
     tail |-> <<32, 49, 32, 125, 10>>],
    \* f: fn (c: i32) i32 {  ...  } \n
    [head |-> <<102, 58, 32, 102, 110, 32, 40, 99, 58, 32, 105, 51, 50, 41, 32, 105, 51, 50, 32, 123, 32>>,
     tail |-> <<32, 125, 10>>],
    \* f: fn (c: i32) f32 {  ...  } \n
    [head |-> <<102, 58, 32, 102, 110, 32, 40, 99, 58, 32, 105, 51, 50, 41, 32, 102, 51, 50, 32, 123, 32>>,
     tail |-> <<32, 125, 10>>],
    \* f: fn (c: i32) void {  ...  } \n
    [head |-> <<102, 58, 32, 102, 110, 32, 40, 99, 58, 32, 105, 51, 50, 41, 32, 118, 111, 105, 100, 32,
       123, 32>>,
     tail |-> <<32, 125, 10>>] }

\* The statements of a branch.
BranchBodies ==
  { \* 1
    <<49>>,
    \* 2.5
    <<50, 46, 53>>,
    \* return 1
    <<114, 101, 116, 117, 114, 110, 32, 49>>,
    \* return 2.5
    <<114, 101, 116, 117, 114, 110, 32, 50, 46, 53>>,
    \* return
    <<114, 101, 116, 117, 114, 110>> }

\* head if (c) { first } else { second } tail
BranchProgram(where, first, second) ==
  where.head \o <<105, 102, 32, 40, 99, 41, 32, 123, 32>> \o first \o <<32, 125, 32, 101, 108, 115, 101, 32, 123, 32>> \o second \o <<32, 125>> \o where.tail

BranchSamples ==
  { \* f: fn () void { a # b } \n
    <<102, 58, 32, 102, 110, 32, 40, 41, 32, 118, 111, 105, 100, 32, 123, 32, 97, 32, 35, 32,
      98, 32, 125, 10>>,
    \* f: fn (c: f64) i32 { if (c) { -1 } else { if (1) { return 2 } else { 3 } } } \n
    <<102, 58, 32, 102, 110, 32, 40, 99, 58, 32, 102, 54, 52, 41, 32, 105, 51, 50, 32, 123, 32,
      105, 102, 32, 40, 99, 41, 32, 123, 32, 45, 49, 32, 125, 32, 101, 108, 115, 101, 32, 123,
      32, 105, 102, 32, 40, 49, 41, 32, 123, 32, 114, 101, 116, 117, 114, 110, 32, 50, 32, 125,
      32, 101, 108, 115, 101, 32, 123, 32, 51, 32, 125, 32, 125, 32, 125, 10>>,
    \* f: fn () void { if ({ }) { } else { } } \n
    <<102, 58, 32, 102, 110, 32, 40, 41, 32, 118, 111, 105, 100, 32, 123, 32, 105, 102, 32, 40,
      123, 32, 125, 41, 32, 123, 32, 125, 32, 101, 108, 115, 101, 32, 123, 32, 125, 32, 125, 10>> }

BranchSources ==
  { BranchProgram(where, first, second) :
      where \in BranchPlaces, first \in BranchBodies, second \in BranchBodies }
    \cup BranchSamples

NextBranches == Compile(BranchSources, 1)

SpecBranches == Init /\ [][NextBranches]_vars

\* The if/else expressions of the program.
ElseNodes == { n \in 1..Len(nodes) : nodes[n].ASType = "ELSE" /\ Len(nodes[n].children) = 2 }

IfBody(n) == nodes[nodes[n].children[1]].children[2]
ElseBody(n) == nodes[n].children[2]

\* What validation recorded of a branch.
BranchEscapes(b) == nodes[b].alwaysEscapes
BranchType(b) == nodes[b].runType

\* C14: of a validated program, an if/else whose two branches always escape
\* always escapes; an if/else of which exactly one branch always escapes,
\* whichever it is, has the run type of the other branch; the branches of an
\* if/else of which none escapes have one type.  And Inconsistent Type is
\* raised only for an if/else of which no branch escapes and the branches
\* differ in type: with one escaping branch validation does not fail on the
\* types of the branches.
C14_IfElseTyping ==
  /\ Validated =>
       \A n \in ElseNodes :
         /\ BranchEscapes(IfBody(n)) /\ BranchEscapes(ElseBody(n)) => nodes[n].alwaysEscapes
         /\ BranchEscapes(IfBody(n)) /\ ~BranchEscapes(ElseBody(n))
              => nodes[n].runType = BranchType(ElseBody(n)) /\ ~nodes[n].alwaysEscapes
         /\ ~BranchEscapes(IfBody(n)) /\ BranchEscapes(ElseBody(n))
              => nodes[n].runType = BranchType(IfBody(n)) /\ ~nodes[n].alwaysEscapes
         /\ ~BranchEscapes(IfBody(n)) /\ ~BranchEscapes(ElseBody(n))
              => BranchType(IfBody(n)) = BranchType(ElseBody(n))
  /\ pc = "failed" /\ err = CompileError("Inconsistent Type") =>
       \E n \in ElseNodes :
         /\ ~BranchEscapes(IfBody(n)) /\ ~BranchEscapes(ElseBody(n))
         /\ BranchType(IfBody(n)) # BranchType(ElseBody(n))

(***************************************************************************)
(* Pointers: the editor is given a program that defines a pointer or a     *)
(* function pointer as a global, a local or a parameter, plain or          *)
(* immutable, with or without an initial assignment, in a program with or  *)
(* without a default memory and a default table; or one of a few sample    *)
(* programs.                                                               *)
(***************************************************************************)
\* What comes before the definition: a default memory or table, defined or
\* imported, or nothing.
PointerPreludes ==
  { \* 
    <<>>,
    \* default_memory 1 void \n
    <<100, 101, 102, 97, 117, 108, 116, 95, 109, 101, 109, 111, 114, 121, 32, 49, 32, 118, 111,
      105, 100, 10>>,
    \* default_table 1 void \n
    <<100, 101, 102, 97, 117, 108, 116, 95, 116, 97, 98, 108, 101, 32, 49, 32, 118, 111, 105,
      100, 10>>,
    \* import default_memory 1 void from "a/b" \n
    <<105, 109, 112, 111, 114, 116, 32, 100, 101, 102, 97, 117, 108, 116, 95, 109, 101, 109,
      111, 114, 121, 32, 49, 32, 118, 111, 105, 100, 32, 102, 114, 111, 109, 32, 34, 97, 47,
      98, 34, 10>> }

\* The type of the definition.
PointerSpecs ==
  { \* ptr i32
    <<112, 116, 114, 32, 105, 51, 50>>,
    \* immutable ptr i32
    <<105, 109, 109, 117, 116, 97, 98, 108, 101, 32, 112, 116, 114, 32, 105, 51, 50>>,
    \* fn_ptr () void
    <<102, 110, 95, 112, 116, 114, 32, 40, 41, 32, 118, 111, 105, 100>>,
    \* immutable fn_ptr () void
    <<105, 109, 109, 117, 116, 97, 98, 108, 101, 32, 102, 110, 95, 112, 116, 114, 32, 40, 41,
      32, 118, 111, 105, 100>> }

\* The initial assignment: none, or = 0.
PointerInitials ==
  { \* 
    <<>>,
    \*  = 0
    <<32, 61, 32, 48>> }

\* The definition q: type initial as a global, as a local of f, or (without
\* the initial assignment) as a parameter of f.
PointerProgram(prelude, where, type, initial) ==
  prelude \o
    CASE where = "global" -> <<113, 58, 32>> \o type \o initial \o <<10>>
      [] where = "local" ->
           <<102, 58, 32, 102, 110, 32, 40, 41, 32, 118, 111, 105, 100, 32, 123, 32, 113, 58, 32>> \o type \o initial \o <<32, 125, 10>>
      [] where = "parameter" ->
           <<102, 58, 32, 102, 110, 32, 40, 113, 58, 32>> \o type \o <<41, 32, 118, 111, 105, 100, 32, 123, 32, 125, 10>>

PointerSamples ==
  { \* f: fn () void { a # b } \n
    <<102, 58, 32, 102, 110, 32, 40, 41, 32, 118, 111, 105, 100, 32, 123, 32, 97, 32, 35, 32,
      98, 32, 125, 10>>,
    \* default_memory 1 void \n f: fn () i32 { q: ptr i32 = -1 q[0] } \n
    <<100, 101, 102, 97, 117, 108, 116, 95, 109, 101, 109, 111, 114, 121, 32, 49, 32, 118, 111,
      105, 100, 10, 102, 58, 32, 102, 110, 32, 40, 41, 32, 105, 51, 50, 32, 123, 32, 113, 58,
      32, 112, 116, 114, 32, 105, 51, 50, 32, 61, 32, 45, 49, 32, 113, 91, 48, 93, 32, 125, 10>> }

PointerSources ==
  { PointerProgram(prelude, where, type, initial) :
      prelude \in PointerPreludes, where \in {"global", "local", "parameter"},
      type \in PointerSpecs, initial \in PointerInitials }
    \cup PointerSamples

NextPointers == Compile(PointerSources, 1)

SpecPointers == Init /\ [][NextPointers]_vars

\* The definitions of pointers and of function pointers.
PointerDefinitions == { d \in 1..Len(defs) : defs[d].ASType = "PTR" }
FunctionPointerDefinitions == { d \in 1..Len(defs) : defs[d].ASType = "FN_PTR" }

\* C15: no program with a pointer definition and no default memory, and no
\* program with a function pointer definition and no default table, passes
\* validation, whatever the place and the form of the definition.
C15_PointerPrerequisites ==
  Validated =>
    /\ glob.defaultMemory = << >> => PointerDefinitions = {}
    /\ glob.defaultTable = << >> => FunctionPointerDefinitions = {}

(***************************************************************************)
(* Initializers: the editor is given a program that imports two immutable  *)
(* globals, defines an immutable and a mutable global, and then defines a  *)
(* global, plain or immutable, of one of the four value types, whose       *)
(* initial value is a literal or one of the four globals; or one of a few  *)
(* sample programs.                                                        *)
(***************************************************************************)
\* The declared type of the global.
InitializerTypes ==
  { \* i32
    <<105, 51, 50>>,
    \* i64
    <<105, 54, 52>>,
    \* f32
    <<102, 51, 50>>,
    \* f64
    <<102, 54, 52>>,
    \* immutable i32
    <<105, 109, 109, 117, 116, 97, 98, 108, 101, 32, 105, 51, 50>>,
    \* immutable f32
    <<105, 109, 109, 117, 116, 97, 98, 108, 101, 32, 102, 51, 50>> }

\* The initial value: a literal of each type, or a reference to m, n, a or b.
InitializerValues ==
  { \* 1
    <<49>>,
    \* 1x64
    <<49, 120, 54, 52>>,
    \* 2.5
    <<50, 46, 53>>,
    \* 1.5x64
    <<49, 46, 53, 120, 54, 52>>,
    \* m
    <<109>>,
    \* n
    <<110>>,
    \* a
    <<97>>,
    \* b
    <<98>> }

\* import m: i32 from "a/b" \n import n: f32 from "a/b" \n
\* a: immutable i32 = 1 \n b: i32 = 2 \n g: type = value \n
InitializerProgram(type, value) ==
  <<105, 109, 112, 111, 114, 116, 32, 109, 58, 32, 105, 51, 50, 32, 102, 114, 111, 109, 32, 34,
    97, 47, 98, 34, 10, 105, 109, 112, 111, 114, 116, 32, 110, 58, 32, 102, 51, 50, 32, 102,
    114, 111, 109, 32, 34, 97, 47, 98, 34, 10, 97, 58, 32, 105, 109, 109, 117, 116, 97, 98,
    108, 101, 32, 105, 51, 50, 32, 61, 32, 49, 10, 98, 58, 32, 105, 51, 50, 32, 61, 32, 50, 10,
    103, 58, 32>>
    \o type \o <<32, 61, 32>> \o value \o <<10>>

InitializerSamples ==
  { \* g: i32 = 1 # 2 \n
    <<103, 58, 32, 105, 51, 50, 32, 61, 32, 49, 32, 35, 32, 50, 10>>,
    \* g: i32 = -1 \n
    <<103, 58, 32, 105, 51, 50, 32, 61, 32, 45, 49, 10>>,
    \* g: i32 = h \n h: immutable i32 = 1 \n
    <<103, 58, 32, 105, 51, 50, 32, 61, 32, 104, 10, 104, 58, 32, 105, 109, 109, 117, 116, 97,
      98, 108, 101, 32, 105, 51, 50, 32, 61, 32, 49, 10>> }

InitializerSources ==
  { InitializerProgram(type, value) : type \in InitializerTypes, value \in InitializerValues }
    \cup InitializerSamples

NextInitializers == Compile(InitializerSources, 1)

SpecInitializers == Init /\ [][NextInitializers]_vars

\* The init-expressions of the program, complete with both operands.
InitExpressions ==
  { n \in 1..Len(nodes) : nodes[n].ASType = "INIT_EXPR" /\ Len(nodes[n].children) = 2 }

InitialValue(n) == nodes[n].children[2]

IsLiteral(n) == nodes[n].ASType \in {"F32_LITERAL", "F64_LITERAL", "I32_LITERAL", "I64_LITERAL"}

\* A reference to a global that is imported and immutable.
ToImportedImmutable(n) ==
  /\ nodes[n].ASType = "VARIABLE"
  /\ nodes[n].meta.kind = "definition"
  /\ nodes[n].meta.definition \in Listed(glob.imports.global)
  /\ ~DefinitionOf(n).mutable

\* C16: in a program that passed validation, the value of every
\* init-expression is a numeric literal or a reference to an imported
\* immutable global, and its type is the declared type of the global; and
\* Bad Initializer is raised only when some init-expression refers to a
\* global that is not imported or is mutable.
C16_GlobalInitializers ==
  /\ Validated =>
       \A n \in InitExpressions :
         /\ IsLiteral(InitialValue(n)) \/ ToImportedImmutable(InitialValue(n))
         /\ nodes[InitialValue(n)].runType = DefinitionOf(nodes[n].children[1]).runType
  /\ pc = "failed" /\ err = CompileError("Bad Initializer") =>
       \E n \in InitExpressions :
         /\ nodes[InitialValue(n)].ASType = "VARIABLE"
         /\ ~ToImportedImmutable(InitialValue(n))

\* The memory accesses that are read: those that are not the target of an
\* assignment.
MemoryReads ==
  SelectSeq(MemoryAccesses,
            LAMBDA n : ~(nodes[nodes[n].parent].ASType = "ASSIGN"
                           /\ nodes[nodes[n].parent].children[1] = n))

IsLoad(part) ==
  /\ part.field = "op"
  /\ \E type \in {"i32", "i64", "f32", "f64"} :
       \E rest \in {"", "8_s", "8_u", "16_s", "16_u", "32_s", "32_u"} :
         part.value = type \o ".load" \o rest

\* The loads emitted, in the order they were emitted in.
LoadOps == SelectSeq(bc.parts, IsLoad)

\* The load of WebAssembly for a value of a type stored as the pointer says.
TypedLoad(type, pointer) ==
  type \o ".load" \o (IF pointer.extendedType
                      THEN ToString(pointer.storageBits) \o "_" \o pointer.storageSigned
                      ELSE "")

\* C17: once a module is generated, one load is emitted for each memory
\* access that is read, in order; it is the load of the validated run type
\* of the access - the element type of the pointer - with the width and the
\* signedness of the storage type when that is narrower, and it is an
\* opcode of WebAssembly.
C17_TypedLoads ==
  Generated =>
    /\ Len(LoadOps) = Len(MemoryReads)
    /\ \A i \in 1..Len(LoadOps) :
         LET n == MemoryReads[i]
         IN /\ nodes[n].runType = DefinitionOf(n).returnType
            /\ LoadOps[i].value = TypedLoad(nodes[n].runType, DefinitionOf(n))
            /\ LoadOps[i].bytes = <<codeTable(LoadOps[i].value)>>
            /\ codeTable(LoadOps[i].value) >= 0

(***************************************************************************)
(* Booleans: the editor is given a function whose body is an `and` or an   *)
(* `or` of two operands, each a parameter of type i32, f32 or i64, a       *)
(* literal, or a call of a function that returns nothing; or one of a few  *)
(* sample programs.                                                        *)
(***************************************************************************)
BooleanOperands ==
  { \* a
    <<97>>,
    \* b
    <<98>>,
    \* c
    <<99>>,
    \* 1
    <<49>>,
    \* 2.5
    <<50, 46, 53>>,
    \* g()
    <<103, 40, 41>> }

BooleanOperators ==
  { \* and
    <<97, 110, 100>>,
    \* or
    <<111, 114>> }

\* g: fn () void { } \n f: fn (a: i32, b: f32, c: i64) void { left operator right } \n
BooleanProgram(left, operator, right) ==
  <<103, 58, 32, 102, 110, 32, 40, 41, 32, 118, 111, 105, 100, 32, 123, 32, 125, 10, 102, 58,
    32, 102, 110, 32, 40, 97, 58, 32, 105, 51, 50, 44, 32, 98, 58, 32, 102, 51, 50, 44, 32, 99,
    58, 32, 105, 54, 52, 41, 32, 118, 111, 105, 100, 32, 123, 32>>
    \o left \o <<32>> \o operator \o <<32>> \o right \o <<32, 125, 10>>

BooleanSamples ==
  { \* f: fn () void { a # b } \n
    <<102, 58, 32, 102, 110, 32, 40, 41, 32, 118, 111, 105, 100, 32, 123, 32, 97, 32, 35, 32,
      98, 32, 125, 10>>,
    \* f: fn (a: i32) i32 { -1 and a } \n
    <<102, 58, 32, 102, 110, 32, 40, 97, 58, 32, 105, 51, 50, 41, 32, 105, 51, 50, 32, 123, 32,
      45, 49, 32, 97, 110, 100, 32, 97, 32, 125, 10>>,
    \* f: fn (a: i32) i32 { a or -1 } \n
    <<102, 58, 32, 102, 110, 32, 40, 97, 58, 32, 105, 51, 50, 41, 32, 105, 51, 50, 32, 123, 32,
      97, 32, 111, 114, 32, 45, 49, 32, 125, 10>> }

BooleanSources ==
  { BooleanProgram(left, operator, right) :
      left \in BooleanOperands, operator \in BooleanOperators, right \in BooleanOperands }
    \cup BooleanSamples

NextBooleans == Compile(BooleanSources, 1)

SpecBooleans == Init /\ [][NextBooleans]_vars

\* The `and` and `or` expressions of the program.
Booleans == { n \in 1..Len(nodes) : nodes[n].ASType \in {"AND", "OR"} }

\* The run type validation gives an operand that is a reference, a call or a
\* literal (a negated one included), read off the resolved tree.
RECURSIVE OperandType(_)
OperandType(n) ==
  CASE nodes[n].ASType = "VARIABLE" -> DefinitionOf(n).runType
    [] nodes[n].ASType = "CALL" -> DefinitionOf(n).returnType
    [] nodes[n].ASType = "I32_LITERAL" -> "i32"
    [] nodes[n].ASType = "I64_LITERAL" -> "i64"
    [] nodes[n].ASType = "F32_LITERAL" -> "f32"
    [] nodes[n].ASType = "F64_LITERAL" -> "f64"
    [] nodes[n].ASType = "NEG" -> OperandType(nodes[n].children[1])
    [] OTHER -> "unknown"

LeftType(n) == OperandType(nodes[n].children[1])
RightType(n) == OperandType(nodes[n].children[2])

\* C18: validating a program whose only `and` or `or` has operands of
\* different run types raises Inconsistent Type For Boolean, and one whose
\* operands are both void raises Non-Numeric Type For Boolean, for `and` and
\* for `or` alike.
C18_BooleanOperandTyping ==
  [][pc = "validate" =>
       \A n \in Booleans :
         Booleans = {n} /\ "unknown" \notin {LeftType(n), RightType(n)} =>
           /\ LeftType(n) # RightType(n)
                => err' = CompileError("Inconsistent Type For Boolean")
           /\ LeftType(n) = "void" /\ RightType(n) = "void"
                => err' = CompileError("Non-Numeric Type For Boolean")]_vars

(***************************************************************************)
(* Globals: the editor is given a program of at most MaxGlobals top-level  *)
(* definitions of globals, with an initial value or without one, followed  *)
(* by a function; or one of a few sample programs.                         *)
(***************************************************************************)
MaxGlobals == 2

GlobalDefinitions ==
  { \* g: i32
    <<103, 58, 32, 105, 51, 50>>,
    \* h: f64 = 1.5x64
    <<104, 58, 32, 102, 54, 52, 32, 61, 32, 49, 46, 53, 120, 54, 52>>,
    \* k: immutable i64 = 1x64
    <<107, 58, 32, 105, 109, 109, 117, 116, 97, 98, 108, 101, 32, 105, 54, 52, 32, 61, 32, 49,
      120, 54, 52>>,
    \* j: i32 = 4294967295
    <<106, 58, 32, 105, 51, 50, 32, 61, 32, 52, 50, 57, 52, 57, 54, 55, 50, 57, 53>>,
    \* e: immutable f32
    <<101, 58, 32, 105, 109, 109, 117, 116, 97, 98, 108, 101, 32, 102, 51, 50>> }

\* The definitions, one to a line.
RECURSIVE GlobalLines(_)
GlobalLines(definitions) ==
  IF definitions = << >> THEN << >>
  ELSE GlobalLines(SubSeq(definitions, 1, Len(definitions) - 1))
         \o definitions[Len(definitions)] \o <<10>>

\* definitions f: fn () void { } \n
GlobalProgram(definitions) ==
  GlobalLines(definitions) \o <<102, 58, 32, 102, 110, 32, 40, 41, 32, 118, 111, 105, 100, 32, 123, 32, 125, 10>>

GlobalSamples ==
  { \* g: i32 = 1 # 2 \n
    <<103, 58, 32, 105, 51, 50, 32, 61, 32, 49, 32, 35, 32, 50, 10>>,
    \* g: i32 = 1 \n f: fn () i32 { g = -1 g } \n
    <<103, 58, 32, 105, 51, 50, 32, 61, 32, 49, 10, 102, 58, 32, 102, 110, 32, 40, 41, 32, 105,
      51, 50, 32, 123, 32, 103, 32, 61, 32, 45, 49, 32, 103, 32, 125, 10>> }

\* The definitions of a program are different ones: each defines its own name.
GlobalSources ==
  { GlobalProgram(definitions) :
      definitions \in { list \in UNION { [1..n -> GlobalDefinitions] : n \in 0..MaxGlobals } :
                          \A i, j \in 1..Len(list) : i # j => list[i] # list[j] } }
    \cup GlobalSamples

NextGlobals == Compile(GlobalSources, 1)

SpecGlobals == Init /\ [][NextGlobals]_vars

\* The records emitted for a global, in the order they were emitted in.
GlobalRecords(d) ==
  SelectSeq(bc.parts,
            LAMBDA part : /\ Len(part.path) >= 4
                          /\ part.path[2] = "global section"
                          /\ part.path[3] = defs[d].name)

\* C19: generating the module of a validated program throws nothing but
\* Integer Out of Range in Code Generation; and once a module is generated,
\* its global section holds for each global of the module, with or without
\* an initial value in the source, a content type, a mutability flag and an
\* initializer expression that ends in `end`.
C19_CodeGenerationTotal ==
  /\ [][pc = "generate" =>
          err' \in {NoError, CompileError("Integer Out of Range in Code Generation")}]_vars
  /\ [](Generated =>
          \A i \in 1..Len(scopes[1].variables) :
            LET records == GlobalRecords(scopes[1].variables[i])
            IN /\ Len(records) >= 3
               /\ records[1].field = "content_type"
               /\ records[2].field = "mutability"
               /\ \A k \in 3..Len(records) : records[k].path[4] = "init_expr"
               /\ records[Len(records)].field = "op"
               /\ records[Len(records)].value = "end")

(***************************************************************************)
(* Jumps: the editor is given a function whose loop holds a break or a     *)
(* continue inside at most MaxNesting constructs, each an if, the else of  *)
(* an if/else, a block of two statements or a loop; or one of a few sample *)
(* programs.                                                               *)
(***************************************************************************)
MaxNesting == 2

\* A construct around a statement: the text before and the text after it.
JumpWrappers ==
  { \* if (i) {  ...  }
    [head |-> <<105, 102, 32, 40, 105, 41, 32, 123, 32>>,
     tail |-> <<32, 125>>],
    \* if (i) { i++ } else {  ...  }
    [head |-> <<105, 102, 32, 40, 105, 41, 32, 123, 32, 105, 43, 43, 32, 125, 32, 101, 108, 115, 101,
       32, 123, 32>>,
     tail |-> <<32, 125>>],
    \* { i++  ...  }
    [head |-> <<123, 32, 105, 43, 43, 32>>,
     tail |-> <<32, 125>>],
    \* loop { if (i) break  ...  }
    [head |-> <<108, 111, 111, 112, 32, 123, 32, 105, 102, 32, 40, 105, 41, 32, 98, 114, 101, 97, 107, 32>>,
     tail |-> <<32, 125>>] }

JumpStatements ==
  { \* break
    <<98, 114, 101, 97, 107>>,
    \* continue
    <<99, 111, 110, 116, 105, 110, 117, 101>> }

\* The statement inside the constructs, the first of them outermost.
RECURSIVE Wrapped(_, _)
Wrapped(wrappers, statement) ==
  IF wrappers = << >> THEN statement
  ELSE wrappers[1].head \o Wrapped(Tail(wrappers), statement) \o wrappers[1].tail

\* f: fn (i: i32) void { loop { if (i) break wrapped statement } } \n
JumpProgram(wrappers, statement) ==
  <<102, 58, 32, 102, 110, 32, 40, 105, 58, 32, 105, 51, 50, 41, 32, 118, 111, 105, 100, 32,
    123, 32, 108, 111, 111, 112, 32, 123, 32, 105, 102, 32, 40, 105, 41, 32, 98, 114, 101, 97,
    107, 32>>
    \o Wrapped(wrappers, statement) \o <<32, 125, 32, 125, 10>>

JumpSamples ==
  { \* f: fn () void { loop { # } } \n
    <<102, 58, 32, 102, 110, 32, 40, 41, 32, 118, 111, 105, 100, 32, 123, 32, 108, 111, 111,
      112, 32, 123, 32, 35, 32, 125, 32, 125, 10>>,
    \* f: fn (i: i32) i32 { loop { i = i and { i++ yield -1 } } } \n
    <<102, 58, 32, 102, 110, 32, 40, 105, 58, 32, 105, 51, 50, 41, 32, 105, 51, 50, 32, 123,
      32, 108, 111, 111, 112, 32, 123, 32, 105, 32, 61, 32, 105, 32, 97, 110, 100, 32, 123, 32,
      105, 43, 43, 32, 121, 105, 101, 108, 100, 32, 45, 49, 32, 125, 32, 125, 32, 125, 10>>,
    \* f: fn (i: i32) i32 { loop { i = i or { i++ yield 1 } } } \n g: fn (i: i32) void { loop { if (i) break else continue } } \n
    <<102, 58, 32, 102, 110, 32, 40, 105, 58, 32, 105, 51, 50, 41, 32, 105, 51, 50, 32, 123,
      32, 108, 111, 111, 112, 32, 123, 32, 105, 32, 61, 32, 105, 32, 111, 114, 32, 123, 32,
      105, 43, 43, 32, 121, 105, 101, 108, 100, 32, 49, 32, 125, 32, 125, 32, 125, 10, 103, 58,
      32, 102, 110, 32, 40, 105, 58, 32, 105, 51, 50, 41, 32, 118, 111, 105, 100, 32, 123, 32,
      108, 111, 111, 112, 32, 123, 32, 105, 102, 32, 40, 105, 41, 32, 98, 114, 101, 97, 107,
      32, 101, 108, 115, 101, 32, 99, 111, 110, 116, 105, 110, 117, 101, 32, 125, 32, 125, 10>> }

JumpSources ==
  { JumpProgram(wrappers, statement) :
      wrappers \in UNION { [1..n -> JumpWrappers] : n \in 0..MaxNesting },
      statement \in JumpStatements }
    \cup JumpSamples

NextJumps == Compile(JumpSources, 1)

SpecJumps == Init /\ [][NextJumps]_vars

\* The instructions among the records of a function, by their position.
IsOpener(records, k) ==
  records[k].field = "op" /\ records[k].value \in {"block", "loop", "if"}
IsEnd(records, k) == records[k].field = "op" /\ records[k].value = "end"

\* The number of structured control instructions open before record k.
OpenBefore(records, k) ==
  Cardinality({ j \in 1..(k - 1) : IsOpener(records, j) })
    - Cardinality({ j \in 1..(k - 1) : IsEnd(records, j) })

\* The structured control instructions open before record k: those no end
\* before k has closed.
OpenAt(records, k) ==
  { j \in 1..(k - 1) :
      /\ IsOpener(records, j)
      /\ \A m \in (j + 1)..(k - 1) :
           IsEnd(records, m) => OpenBefore(records, m) > OpenBefore(records, j) + 1 }

\* The loop instruction nearest to record k among the open ones.
NearestLoop(records, k) ==
  LET loops == { j \in OpenAt(records, k) : records[j].value = "loop" }
  IN CHOOSE j \in loops : \A other \in loops : other <= j

\* The branches of a function: the records that hold a relative depth.
Branches(records) == { k \in 1..Len(records) : records[k].field = "relative_depth" }

\* The instruction a branch at record k targets: label 0 is the innermost
\* open instruction.
TargetOf(records, k) ==
  { j \in OpenAt(records, k) :
      records[k].value = NumOfNat(OpenBefore(records, k) - 1 - OpenBefore(records, j)) }

ToLoopHeader(records, k) ==
  /\ \E j \in OpenAt(records, k) : records[j].value = "loop"
  /\ TargetOf(records, k) = {NearestLoop(records, k)}

\* The block emitted right before a loop instruction, with its block type in
\* between, is the outer block of that loop.
ToOuterBlock(records, k) ==
  /\ \E j \in OpenAt(records, k) : records[j].value = "loop"
  /\ TargetOf(records, k) = {NearestLoop(records, k) - 2}
  /\ records[NearestLoop(records, k) - 2].value = "block"

\* The nodes of a type inside a function, in source order.
RECURSIVE Within(_, _)
Within(n, fn) ==
  IF n = 0 THEN FALSE ELSE IF n = fn THEN TRUE ELSE Within(nodes[n].parent, fn)

NodesIn(d, types) ==
  SelectSeq([n \in 1..Len(nodes) |-> n],
            LAMBDA n : nodes[n].ASType \in types /\ Within(n, defs[d].body))

\* C20: once a module is generated, in the body of every function: each
\* loop recorded as the depth of its outer block the number of instructions
\* open inside that block; every branch has a relative depth that is not
\* negative and targets either the header of the nearest enclosing loop or
\* the outer block of that loop; as many branches target an outer block as
\* there are breaks and yields, and as many a loop header as there are
\* continues and loops (each loop ends in a branch to its header).
C20_BranchTargets ==
  Generated =>
    \A f \in 1..Len(glob.functions) :
      LET d == glob.functions[f]
          records == RecordsOf(d)
          loops == NodesIn(d, {"LOOP"})
          headers == SelectSeq([k \in 1..Len(records) |-> k],
                               LAMBDA k : records[k].field = "op" /\ records[k].value = "loop")
      IN /\ Len(headers) = Len(loops)
         /\ \A i \in 1..Len(loops) :
              nodes[loops[i]].meta.depth = OpenBefore(records, headers[i])
         /\ \A k \in Branches(records) :
              /\ ~records[k].value.neg
              /\ ToLoopHeader(records, k) \/ ToOuterBlock(records, k)
         /\ Cardinality({ k \in Branches(records) : ToOuterBlock(records, k) })
              = Len(NodesIn(d, {"BREAK", "YIELD"}))
         /\ Cardinality({ k \in Branches(records) : ToLoopHeader(records, k) })
              = Len(NodesIn(d, {"CONTINUE", "LOOP"}))

\* A module has been generated in which a break lies two instructions deep
\* inside its loop: a branch of relative depth 3 targets an outer block.
C20_Witness ==
  /\ Generated
  /\ \E f \in 1..Len(glob.functions) :
       LET records == RecordsOf(glob.functions[f])
       IN \E k \in Branches(records) :
            /\ records[k].value = NumOfNat(3)
            /\ ToOuterBlock(records, k)

(***************************************************************************)
(* Blocks: the editor is given a function f that holds, in one of a few    *)
(* places, at most MaxBlockStatements statements; or one of a few sample   *)
(* programs.                                                               *)
(***************************************************************************)
MaxBlockStatements == 2

\* A place for statements: the text before and the text after them.
BlockPlaces ==
  { \* f: fn (i: i32) i32 {  ...  }
    [head |-> <<102, 58, 32, 102, 110, 32, 40, 105, 58, 32, 105, 51, 50, 41, 32, 105, 51, 50, 32, 123, 32>>,
     tail |-> <<32, 125>>],
    \* f: fn (i: i32) void {  ...  }
    [head |-> <<102, 58, 32, 102, 110, 32, 40, 105, 58, 32, 105, 51, 50, 41, 32, 118, 111, 105, 100, 32,
       123, 32>>,
     tail |-> <<32, 125>>],
    \* f: fn (i: i32) i32 { i = {  ...  } }
    [head |-> <<102, 58, 32, 102, 110, 32, 40, 105, 58, 32, 105, 51, 50, 41, 32, 105, 51, 50, 32, 123,
       32, 105, 32, 61, 32, 123, 32>>,
     tail |-> <<32, 125, 32, 125>>],
    \* f: fn (i: i32) void { {  ...  } i }
    [head |-> <<102, 58, 32, 102, 110, 32, 40, 105, 58, 32, 105, 51, 50, 41, 32, 118, 111, 105, 100, 32,
       123, 32, 123, 32>>,
     tail |-> <<32, 125, 32, 105, 32, 125>>] }

BlockStatements ==
  { \* i
    <<105>>,
    \* i++
    <<105, 43, 43>>,
    \* return 1
    <<114, 101, 116, 117, 114, 110, 32, 49>>,
    \* return
    <<114, 101, 116, 117, 114, 110>>,
    \* { }
    <<123, 32, 125>>,
    \* { 1 i }
    <<123, 32, 49, 32, 105, 32, 125>>,
    \* if (i) { 1 } else { 2 }
    <<105, 102, 32, 40, 105, 41, 32, 123, 32, 49, 32, 125, 32, 101, 108, 115, 101, 32, 123, 32,
      50, 32, 125>>,
    \* if (i) { return 1 } else { return 1 }
    <<105, 102, 32, 40, 105, 41, 32, 123, 32, 114, 101, 116, 117, 114, 110, 32, 49, 32, 125,
      32, 101, 108, 115, 101, 32, 123, 32, 114, 101, 116, 117, 114, 110, 32, 49, 32, 125>>,
    \* loop { if (i) break i }
    <<108, 111, 111, 112, 32, 123, 32, 105, 102, 32, 40, 105, 41, 32, 98, 114, 101, 97, 107,
      32, 105, 32, 125>>,
    \* loop { return 1 }
    <<108, 111, 111, 112, 32, 123, 32, 114, 101, 116, 117, 114, 110, 32, 49, 32, 125>> }

RECURSIVE BlockBody(_)
BlockBody(statements) ==
  IF statements = << >> THEN << >>
  ELSE statements[1] \o <<32>> \o BlockBody(Tail(statements))

\* place.head statements place.tail \n
BlockProgram(where, statements) ==
  where.head \o BlockBody(statements) \o where.tail \o <<10>>

BlockSamples ==
  { \* f: fn () void { a # b } \n
    <<102, 58, 32, 102, 110, 32, 40, 41, 32, 118, 111, 105, 100, 32, 123, 32, 97, 32, 35, 32,
      98, 32, 125, 10>>,
    \* f: fn (i: i32) i32 { { i i = -1 } i = { 2 i } loop { return i } } \n
    <<102, 58, 32, 102, 110, 32, 40, 105, 58, 32, 105, 51, 50, 41, 32, 105, 51, 50, 32, 123,
      32, 123, 32, 105, 32, 105, 32, 61, 32, 45, 49, 32, 125, 32, 105, 32, 61, 32, 123, 32, 50,
      32, 105, 32, 125, 32, 108, 111, 111, 112, 32, 123, 32, 114, 101, 116, 117, 114, 110, 32,
      105, 32, 125, 32, 125, 10>>,
    \* g: fn () i32 { u: i32 = 1 (2.5) g() } \n f: fn (i: i32) i32 { i = ( g() i++ { } loop { yield 3 } ) i } \n
    <<103, 58, 32, 102, 110, 32, 40, 41, 32, 105, 51, 50, 32, 123, 32, 117, 58, 32, 105, 51,
      50, 32, 61, 32, 49, 32, 40, 50, 46, 53, 41, 32, 103, 40, 41, 32, 125, 10, 102, 58, 32,
      102, 110, 32, 40, 105, 58, 32, 105, 51, 50, 41, 32, 105, 51, 50, 32, 123, 32, 105, 32,
      61, 32, 40, 32, 103, 40, 41, 32, 105, 43, 43, 32, 123, 32, 125, 32, 108, 111, 111, 112,
      32, 123, 32, 121, 105, 101, 108, 100, 32, 51, 32, 125, 32, 41, 32, 105, 32, 125, 10>> }

BlockSources ==
  { BlockProgram(where, statements) :
      where \in BlockPlaces,
      statements \in UNION { [1..n -> BlockStatements] : n \in 0..MaxBlockStatements } }
    \cup BlockSamples

NextBlocks == Compile(BlockSources, 1)

SpecBlocks == Init /\ [][NextBlocks]_vars

\* The blocks and parentheses of the tree.
Blocks == { n \in 1..Len(nodes) : nodes[n].ASType \in {"BLOCK", "PAREN"} }

LastChild(n) == nodes[n].children[Len(nodes[n].children)]

\* C21: in a validated program no child of a block or parenthesis but the
\* last always escapes, and a block always escapes exactly when its last
\* child does (never, when it has no child); validation reports a child that
\* always escapes and has a sibling after it as Unreachable Code.
C21_UnreachableCode ==
  /\ [](Validated =>
          \A n \in Blocks :
            /\ \A i \in 1..(Len(nodes[n].children) - 1) :
                 ~nodes[nodes[n].children[i]].alwaysEscapes
            /\ nodes[n].alwaysEscapes =
                 IF nodes[n].children = << >> THEN FALSE
                 ELSE nodes[LastChild(n)].alwaysEscapes)
  /\ [][pc = "validate"
          /\ (\E n \in Blocks : \E i \in 1..(Len(nodes'[n].children) - 1) :
                nodes'[nodes'[n].children[i]].alwaysEscapes)
          => err' = CompileError("Unreachable Code")]_vars

\* A validated program has a block of two children whose last child always
\* escapes, and so does the block.
C21_Witness ==
  /\ Validated
  /\ \E n \in Blocks :
       /\ Len(nodes[n].children) = 2
       /\ nodes[LastChild(n)].alwaysEscapes
       /\ nodes[n].alwaysEscapes
       /\ \E m \in Blocks : m # n /\ nodes[m].children = << >>

(***************************************************************************)
(* Exports: the editor is given an export of the default memory or of the  *)
(* default table, before or after lines that define or import a default    *)
(* memory, a default table, both or neither; or one of a few sample        *)
(* programs.                                                               *)
(***************************************************************************)
ExportPreludes ==
  { \* 
    <<>>,
    \* default_memory 1 void \n
    <<100, 101, 102, 97, 117, 108, 116, 95, 109, 101, 109, 111, 114, 121, 32, 49, 32, 118, 111,
      105, 100, 10>>,
    \* default_table 1 void \n
    <<100, 101, 102, 97, 117, 108, 116, 95, 116, 97, 98, 108, 101, 32, 49, 32, 118, 111, 105,
      100, 10>>,
    \* import default_memory 1 void from "a/b" \n
    <<105, 109, 112, 111, 114, 116, 32, 100, 101, 102, 97, 117, 108, 116, 95, 109, 101, 109,
      111, 114, 121, 32, 49, 32, 118, 111, 105, 100, 32, 102, 114, 111, 109, 32, 34, 97, 47,
      98, 34, 10>>,
    \* import default_table 1 void from "a/b" \n
    <<105, 109, 112, 111, 114, 116, 32, 100, 101, 102, 97, 117, 108, 116, 95, 116, 97, 98, 108,
      101, 32, 49, 32, 118, 111, 105, 100, 32, 102, 114, 111, 109, 32, 34, 97, 47, 98, 34, 10>>,
    \* default_memory 1 void \n default_table 1 void \n
    <<100, 101, 102, 97, 117, 108, 116, 95, 109, 101, 109, 111, 114, 121, 32, 49, 32, 118, 111,
      105, 100, 10, 100, 101, 102, 97, 117, 108, 116, 95, 116, 97, 98, 108, 101, 32, 49, 32,
      118, 111, 105, 100, 10>> }

ExportLines ==
  { \* export default_memory as "m" \n
    <<101, 120, 112, 111, 114, 116, 32, 100, 101, 102, 97, 117, 108, 116, 95, 109, 101, 109,
      111, 114, 121, 32, 97, 115, 32, 34, 109, 34, 10>>,
    \* export default_table as "t" \n
    <<101, 120, 112, 111, 114, 116, 32, 100, 101, 102, 97, 117, 108, 116, 95, 116, 97, 98, 108,
      101, 32, 97, 115, 32, 34, 116, 34, 10>> }

ExportPrograms ==
  { prelude \o line : prelude \in ExportPreludes, line \in ExportLines }
    \cup { line \o prelude : prelude \in ExportPreludes, line \in ExportLines }

ExportSamples ==
  { \* export default_memory # "m" \n
    <<101, 120, 112, 111, 114, 116, 32, 100, 101, 102, 97, 117, 108, 116, 95, 109, 101, 109,
      111, 114, 121, 32, 35, 32, 34, 109, 34, 10>>,
    \* default_memory 1 void \n export default_memory as "m" \n f: fn (i: i32) i32 { i = -1 } \n export f \n
    <<100, 101, 102, 97, 117, 108, 116, 95, 109, 101, 109, 111, 114, 121, 32, 49, 32, 118, 111,
      105, 100, 10, 101, 120, 112, 111, 114, 116, 32, 100, 101, 102, 97, 117, 108, 116, 95,
      109, 101, 109, 111, 114, 121, 32, 97, 115, 32, 34, 109, 34, 10, 102, 58, 32, 102, 110,
      32, 40, 105, 58, 32, 105, 51, 50, 41, 32, 105, 51, 50, 32, 123, 32, 105, 32, 61, 32, 45,
      49, 32, 125, 10, 101, 120, 112, 111, 114, 116, 32, 102, 10>>,
    \* g: i32 = 1 \n export g \n
    <<103, 58, 32, 105, 51, 50, 32, 61, 32, 49, 10, 101, 120, 112, 111, 114, 116, 32, 103, 10>> }

ExportSources == ExportPrograms \cup ExportSamples

NextExports == Compile(ExportSources, 1)

SpecExports == Init /\ [][NextExports]_vars

\* The exports of the default memory (kind "default_memory") or of the
\* default table (kind "default_table") under a new name.
DefaultExports(kind) ==
  { n \in 1..Len(nodes) :
      /\ nodes[n].ASType = "EXPORT"
      /\ nodes[nodes[n].children[1]].ASType = "AS"
      /\ LET child == nodes[nodes[n].children[1]].children[1]
         IN nodes[child].ASType = "EXPORT_TYPE" /\ nodes[child].token.text = kind }

\* The program exports a default memory or a default table it neither
\* defines nor imports.
MissingExport ==
  \/ DefaultExports("default_memory") # {} /\ glob.defaultMemory = << >>
  \/ DefaultExports("default_table") # {} /\ glob.defaultTable = << >>

\* C22: validating a program that exports the default memory (the default
\* table) under a name and neither defines nor imports one raises the
\* compile error Non-Existent Export.
C22_NonExistentExport ==
  [][pc = "validate" /\ MissingExport
       => err' = CompileError("Non-Existent Export")]_vars


\* validate(node, valueRequired): the valueRequired a node is validated with,
\* read off the call that validates it in the case of its parent.
RECURSIVE ValueRequired(_)
ValueRequired(n) ==
  LET up == nodes[n].parent
      kind == nodes[up].ASType
      siblings == nodes[up].children
  IN IF up = 0 THEN FALSE
     ELSE IF \E f \in 1..Len(glob.functions) : defs[glob.functions[f]].body = n
     THEN \E f \in 1..Len(glob.functions) :
            defs[glob.functions[f]].body = n /\ defs[glob.functions[f]].returnType # "void"
     ELSE CASE kind \in {"BLOCK", "PAREN"} ->
                 IF n = siblings[Len(siblings)] THEN ValueRequired(up) ELSE FALSE
            [] kind = "IF" ->
                 IF n = siblings[1] THEN TRUE
                 ELSE IF nodes[up].parent # 0 /\ nodes[nodes[up].parent].ASType = "ELSE"
                 THEN ValueRequired(nodes[up].parent)
                 ELSE FALSE
            [] kind = "ELSE" -> ValueRequired(up)
            [] kind = "ASSIGN" -> IF n = siblings[1] THEN ValueRequired(up) ELSE TRUE
            [] kind \in {"LOOP", "ROOT", "DEFINITION"} -> FALSE
            [] OTHER -> TRUE

ValueTypes == {"i32", "i64", "f32", "f64"}

\* The number of values an instruction takes from the operand stack and the
\* number it leaves there (WebAssembly MVP); calls and structured control
\* instructions are dealt with apart.
StackEffect(code) ==
  CASE code \in { type \o ".const" : type \in ValueTypes }
                  \cup {"get_local", "get_global", "current_memory"} ->
         [known |-> TRUE, pops |-> 0, pushes |-> 1]
    [] code \in {"set_local", "set_global", "drop", "br_if"} ->
         [known |-> TRUE, pops |-> 1, pushes |-> 0]
    [] code \in {"tee_local", "grow_memory", "i32.eqz", "i64.eqz"} ->
         [known |-> TRUE, pops |-> 1, pushes |-> 1]
    [] code \in { type \o "." \o operation :
                    type \in ValueTypes,
                    operation \in {"add", "sub", "mul", "eq", "ne"} } ->
         [known |-> TRUE, pops |-> 2, pushes |-> 1]
    [] code = "nop" -> [known |-> TRUE, pops |-> 0, pushes |-> 0]
    [] OTHER -> [known |-> FALSE, pops |-> 0, pushes |-> 0]

Arity(type) == IF type = "void" THEN 0 ELSE 1

\* The instructions of a function, each block_type and function_index after
\* its instruction.
Instructions(d) ==
  SelectSeq(RecordsOf(d),
            LAMBDA part : /\ \E i \in 1..Len(part.path) : part.path[i] = "code"
                          /\ part.field \in {"op", "block_type", "function_index"})

\* The function a call instruction names.
Callee(value) ==
  CHOOSE d \in 1..Len(defs) :
    /\ \/ \E f \in 1..Len(glob.functions) : glob.functions[f] = d
       \/ \E f \in 1..Len(glob.imports.function) : glob.imports.function[f] = d
    /\ NumOfNat(defs[d].index) = value

\* The instructions from the k-th on keep the operand stack in order: no
\* instruction that can be reached takes a value from below the base of the
\* innermost open block, and where the end (or the else) of a block can be
\* reached the stack holds the base of the block and one more value when the
\* block has a type, none when it is void. frames holds, innermost last, the
\* base, the arity and the reachability at the start of every open block,
\* the function body first.
RECURSIVE Balanced(_, _, _, _, _)
Balanced(code, k, height, live, frames) ==
  LET top == frames[Len(frames)]
      value == code[k].value
      closes == live => height = top.base + top.arity
      effect == IF value = "call"
                THEN [known |-> TRUE,
                      pops |-> Len(defs[Callee(code[k + 1].value)].paramTypes),
                      pushes |-> Arity(defs[Callee(code[k + 1].value)].returnType)]
                ELSE StackEffect(value)
      opened(base) == Append(frames, [base |-> base, arity |-> Arity(code[k + 1].value),
                                      live |-> live])
  IN IF k > Len(code) THEN FALSE
     ELSE IF code[k].field # "op" THEN Balanced(code, k + 1, height, live, frames)
     ELSE CASE value \in {"block", "loop"} ->
                 Balanced(code, k + 1, height, live, opened(height))
            [] value = "if" ->
                 /\ live => height - 1 >= top.base
                 /\ Balanced(code, k + 1, height - 1, live, opened(height - 1))
            [] value = "else" ->
                 closes /\ Balanced(code, k + 1, top.base, top.live, frames)
            [] value = "end" ->
                 /\ closes
                 /\ IF Len(frames) = 1 THEN k = Len(code)
                    ELSE Balanced(code, k + 1, top.base + top.arity, top.live,
                                  SubSeq(frames, 1, Len(frames) - 1))
            [] value \in {"br", "return", "unreachable"} ->
                 Balanced(code, k + 1, height, FALSE, frames)
            [] OTHER ->
                 /\ effect.known
                 /\ live => height - effect.pops >= top.base
                 /\ Balanced(code, k + 1, height - effect.pops + effect.pushes, live, frames)

\* The blocks and parentheses of a function that generate gives a block
\* instruction: those without exactly one child and not the body of an
\* if, an else, a function or a loop.
EmittedBlocks(d) ==
  SelectSeq(NodesIn(d, {"BLOCK", "PAREN"}),
            LAMBDA n : /\ Len(nodes[n].children) # 1
                       /\ nodes[nodes[n].parent].ASType \notin {"ELSE", "IF", "FN", "LOOP"})

\* The types of the block instructions of a function that are not the outer
\* block of a loop.
BlockTypes(d) ==
  LET code == Instructions(d)
      places == SelectSeq([k \in 1..Len(code) |-> k],
                          LAMBDA k : /\ code[k].field = "op" /\ code[k].value = "block"
                                     /\ ~(code[k + 2].field = "op" /\ code[k + 2].value = "loop"))
  IN [i \in 1..Len(places) |-> code[places[i] + 1].value]

\* A drop comes right after a return or a branch.
DropAfterJump(d) ==
  LET code == SelectSeq(RecordsOf(d), LAMBDA part : part.field \in {"op", "relative_depth"})
  IN \E k \in 2..Len(code) :
       /\ code[k].field = "op" /\ code[k].value = "drop"
       /\ \/ code[k - 1].field = "relative_depth"
          \/ code[k - 1].field = "op" /\ code[k - 1].value = "return"

\* C23: in a validated program every child of a block or parenthesis that
\* is not the last and has a run type other than void is marked dropValue,
\* and so is the last child when the value of the block is not required and
\* the run type of that child is not void. In the module generated from it,
\* the block instructions of every function carry, in order, the run types
\* of its blocks, the instructions of every function keep the operand stack
\* in order (every block leaves one value when it has a type and none when
\* it is void), and no drop follows a return or a branch.
C23_DropDiscipline ==
  /\ Validated =>
       \A n \in Blocks :
         /\ \A i \in 1..(Len(nodes[n].children) - 1) :
              nodes[nodes[n].children[i]].runType # "void"
                => nodes[nodes[n].children[i]].dropValue
         /\ nodes[n].children # << >> /\ ~ValueRequired(n)
              /\ nodes[LastChild(n)].runType # "void"
              => nodes[LastChild(n)].dropValue
  /\ Generated =>
       \A f \in 1..Len(glob.functions) :
         LET d == glob.functions[f]
         IN /\ BlockTypes(d) = [i \in 1..Len(EmittedBlocks(d)) |->
                                  nodes[EmittedBlocks(d)[i]].runType]
            /\ Balanced(Instructions(d), 1, 0, TRUE,
                        <<[base |-> 0, arity |-> Arity(defs[d].returnType), live |-> TRUE]>>)
            /\ ~DropAfterJump(d)

\* A module has been generated from a function that has a block of type
\* i32 with two children, the first of them dropped by a drop instruction,
\* and a return that is marked dropValue.
C23_Witness ==
  /\ Generated
  /\ \E f \in 1..Len(glob.functions) :
       LET d == glob.functions[f]
       IN /\ \E i \in 1..Len(EmittedBlocks(d)) :
               LET n == EmittedBlocks(d)[i]
               IN /\ nodes[n].runType = "i32"
                  /\ Len(nodes[n].children) = 2
                  /\ nodes[nodes[n].children[1]].dropValue
                  /\ nodes[nodes[n].children[1]].ASType = "I32_LITERAL"
          /\ \E n \in 1..Len(nodes) : nodes[n].ASType = "RETURN" /\ nodes[n].dropValue
          /\ \E k \in 1..Len(Instructions(d)) :
               Instructions(d)[k].field = "op" /\ Instructions(d)[k].value = "drop"

(***************************************************************************)
(* Parser: the editor is given a function whose body is any list of at     *)
(* most MaxTokens tokens of a small alphabet, well formed or not; or one   *)
(* of a few sample programs.                                               *)
(***************************************************************************)
MaxTokens == 3

ParserTokens ==
  { \* a
    <<97>>,
    \* 1
    <<49>>,
    \* +
    <<43>>,
    \* -
    <<45>>,
    \* (
    <<40>>,
    \* )
    <<41>>,
    \* return
    <<114, 101, 116, 117, 114, 110>>,
    \* ;
    <<59>>,
    \* ++
    <<43, 43>> }

RECURSIVE Spaced(_)
Spaced(texts) ==
  IF texts = << >> THEN << >> ELSE texts[1] \o <<32>> \o Spaced(Tail(texts))

\* f: fn (a: i32) i32 { tokens } \n
ParserProgram(texts) ==
  <<102, 58, 32, 102, 110, 32, 40, 97, 58, 32, 105, 51, 50, 41, 32, 105, 51, 50, 32, 123, 32>>
    \o Spaced(texts) \o <<125, 10>>

ParserSamples ==
  { \* f: fn () void { a # b } \n
    <<102, 58, 32, 102, 110, 32, 40, 41, 32, 118, 111, 105, 100, 32, 123, 32, 97, 32, 35, 32,
      98, 32, 125, 10>>,
    \* f: fn (a: i32) i32 { a = { a * -1 } a } \n
    <<102, 58, 32, 102, 110, 32, 40, 97, 58, 32, 105, 51, 50, 41, 32, 105, 51, 50, 32, 123, 32,
      97, 32, 61, 32, 123, 32, 97, 32, 42, 32, 45, 49, 32, 125, 32, 97, 32, 125, 10>>,
    \* return; return; return \n
    <<114, 101, 116, 117, 114, 110, 59, 32, 114, 101, 116, 117, 114, 110, 59, 32, 114, 101,
      116, 117, 114, 110, 10>>,
    \* f: fn () void { return; return; return } \n
    <<102, 58, 32, 102, 110, 32, 40, 41, 32, 118, 111, 105, 100, 32, 123, 32, 114, 101, 116,
      117, 114, 110, 59, 32, 114, 101, 116, 117, 114, 110, 59, 32, 114, 101, 116, 117, 114,
      110, 32, 125, 10>>,
    \* a ++ a \n
    <<97, 32, 43, 43, 32, 97, 10>>,
    \* f: fn (a: i32) void { a + 1 return } \n
    <<102, 58, 32, 102, 110, 32, 40, 97, 58, 32, 105, 51, 50, 41, 32, 118, 111, 105, 100, 32,
      123, 32, 97, 32, 43, 32, 49, 32, 114, 101, 116, 117, 114, 110, 32, 125, 10>>,
    \* f: fn (a: i32) i32 { a = a = 1 } } \n
    <<102, 58, 32, 102, 110, 32, 40, 97, 58, 32, 105, 51, 50, 41, 32, 105, 51, 50, 32, 123, 32,
      97, 32, 61, 32, 97, 32, 61, 32, 49, 32, 125, 32, 125, 10>>,
    \* g: i32 = 1 \n f: fn (a: i32) i32 { if (a) { return a + g * 2 } else { a++ } g } \n
    <<103, 58, 32, 105, 51, 50, 32, 61, 32, 49, 10, 102, 58, 32, 102, 110, 32, 40, 97, 58, 32,
      105, 51, 50, 41, 32, 105, 51, 50, 32, 123, 32, 105, 102, 32, 40, 97, 41, 32, 123, 32,
      114, 101, 116, 117, 114, 110, 32, 97, 32, 43, 32, 103, 32, 42, 32, 50, 32, 125, 32, 101,
      108, 115, 101, 32, 123, 32, 97, 43, 43, 32, 125, 32, 103, 32, 125, 10>> }

ParserSources ==
  { ParserProgram(texts) :
      texts \in UNION { [1..n -> ParserTokens] : n \in 0..MaxTokens } }
    \cup ParserSamples

NextParser == Compile(ParserSources, 1)

SpecParser == Init /\ [][NextParser]_vars

\* The main loop of parse is running or has just ended.
Parsing == pc = "loop"

\* A node has been placed: some node holds it as a child.
IsPlaced(n) == \E up \in 1..Len(nodes) : \E i \in 1..Len(nodes[up].children) :
                 nodes[up].children[i] = n

\* A return that has no child.
Childless(n) == nodes[n].ASType = "RETURN" /\ nodes[n].children = << >>

\* C24: while parse runs, no node has more children than the expected child
\* count of its ASType, and a node that is complete gets no further child.
\* A node that is complete or has been placed has exactly its expected
\* number of children, unless it is an open expression (ADDRESS, ARG_LIST,
\* BLOCK, PARAM_LIST, PAREN, ROOT, TYPE_LIST) or a return without a child;
\* an open expression becomes complete only on the step that consumes its
\* required terminator, a return without a child only on a terminator.
C24_ChildCount ==
  /\ [](Parsing =>
          \A n \in 1..Len(nodes) :
            /\ Len(nodes[n].children) <= expectedChildCount(nodes[n].ASType)
            /\ nodes[n].complete \/ IsPlaced(n) =>
                 \/ Len(nodes[n].children) = expectedChildCount(nodes[n].ASType)
                 \/ nodes[n].ASType \in OpenTypes /\ nodes[n].complete
                 \/ Childless(n) /\ nodes[n].complete)
  /\ [][Parsing =>
          \A n \in 1..Len(nodes) :
            /\ nodes[n].complete => nodes'[n].children = nodes[n].children
            /\ ~nodes[n].complete /\ nodes'[n].complete
                 /\ (nodes[n].ASType \in OpenTypes
                       \/ (nodes[n].ASType = "RETURN" /\ nodes'[n].children = << >>)) =>
                 /\ n = node
                 /\ isTerminator(tokens[index].ASType)
                 /\ nodes[n].ASType \in OpenTypes =>
                      /\ tokens[index].ASType = requiresTerminator(nodes[n].ASType)
                      /\ index' = index + 1]_vars

\* The parser has placed a return without a child and an infix node with
\* its two children, inside a block that is still open.
C24_Witness ==
  /\ Parsing
  /\ \E r, o, b \in 1..Len(nodes) :
       /\ Childless(r) /\ IsPlaced(r)
       /\ nodes[o].ASType = "ADD" /\ Len(nodes[o].children) = 2 /\ IsPlaced(o)
       /\ nodes[b].ASType = "BLOCK" /\ ~nodes[b].complete /\ Len(nodes[b].children) = 2


\* parse runs its loop one iteration after the other until it returns or
\* throws: an iteration that can be taken is taken.
Iteration ==
  parseSkip \/ parseBadToken \/ parsePlace \/ parseTerminator \/ parseLeftOperand \/ parseChild

\* The same programs with at most MaxLiveTokens tokens in the body.
MaxLiveTokens == 2

LiveSources ==
  { ParserProgram(texts) :
      texts \in UNION { [1..n -> ParserTokens] : n \in 0..MaxLiveTokens } }
    \cup ParserSamples

NextParserLive == Compile(LiveSources, 1)

SpecParserLive == Init /\ [][NextParserLive]_vars /\ WF_vars(Iteration)

\* An iteration of the main loop that ends without an exception.
Iterates == InLoop /\ pc' = "loop"

\* The iteration moves on to the next token.
Consumes == index' = index + 1

\* The iteration looks at the same token again after it placed the current,
\* complete node under its parent and made that parent the current node.
PlacesAndAscends ==
  /\ index' = index
  /\ nodes[node].complete
  /\ node' = nodes[node].parent
  /\ nodes'[node'].children = Append(nodes[node'].children, node)

\* The iteration looks at the same terminator again after it marked the
\* current return, which has no child, complete.
CompletesReturn ==
  /\ index' = index
  /\ node' = node
  /\ isTerminator(tokens[index].ASType)
  /\ nodes[node].ASType = "RETURN" /\ nodes[node].children = << >>
  /\ ~nodes[node].complete /\ nodes'[node].complete

\* The nodes placed so far, the nodes placed by an iteration that consumed
\* the token that claimed them (the first child of every node whose ASType
\* takes a left operand), and the returns completed without a child.
PlacedNodes == { n \in 1..Len(nodes) : IsPlaced(n) }
ClaimedNodes ==
  { n \in 1..Len(nodes) : leftOperands(nodes[n].ASType) # 0 /\ nodes[n].children # << >> }
ChildlessReturns == { n \in 1..Len(nodes) : Childless(n) /\ nodes[n].complete }

\* The iterations so far that consumed no token.
PlacingIterations == Cardinality(PlacedNodes) - Cardinality(ClaimedNodes)

\* The loop ends: by an exception or after its last token.
LoopEnds == (pc = "loop") ~> (pc = "failed" \/ (pc = "loop" /\ index > Len(tokens)))

\* An exception that ends the loop is a CompileError, and a loop that ends
\* without one has consumed every token and marked the root complete.
EndsWell ==
  /\ [][InLoop /\ pc' # "loop" => pc' = "failed" /\ err'.name = "CompileError"]_vars
  /\ [](pc = "loop" /\ index > Len(tokens) =>
          index = Len(tokens) + 1 /\ node = 1 /\ nodes[1].complete)

\* C25 as stated: the main loop of parse ends; every iteration consumes a
\* token or places the complete current node and ascends one level, so that
\* the iterations that consume no token are at most as many as the nodes
\* created; the loop ends by a CompileError or with every token consumed and
\* the root complete.
C25_ParserTerminates ==
  /\ LoopEnds
  /\ [][Iterates => Consumes \/ PlacesAndAscends]_vars
  /\ [](pc = "loop" =>
          PlacingIterations + Cardinality(ChildlessReturns) <= Len(nodes))
  /\ EndsWell

\* C25, amended: the main loop of parse ends; every iteration consumes a
\* token, or places the complete current node and ascends one level, or
\* marks a return without a child complete on a terminator it leaves for the
\* next iteration; the iterations that place a node without consuming a
\* token are fewer than the nodes created; the loop ends by a CompileError
\* or with every token consumed and the root complete.
C25_ParserTerminatesAmended ==
  /\ LoopEnds
  /\ [][Iterates => Consumes \/ PlacesAndAscends \/ CompletesReturn]_vars
  /\ [](pc = "loop" => PlacingIterations < Len(nodes))
  /\ EndsWell

\* The loop has ended with the root complete after iterations that marked
\* three returns without a child complete and placed them.
C25_Witness ==
  /\ pc = "loop" /\ index > Len(tokens)
  /\ nodes[1].complete
  /\ Cardinality(ChildlessReturns \cap PlacedNodes) = 3
  /\ PlacingIterations + Cardinality(ChildlessReturns) > Len(nodes)


\* The main loop of parse has ended without an exception.
LoopDone == pc = "loop" /\ index > Len(tokens)

\* The places a node has in the children lists of the tree.
PlacesOf(n) ==
  { at \in (1..Len(nodes)) \X (1..Len(nodes)) :
      at[2] <= Len(nodes[at[1]].children) /\ nodes[at[1]].children[at[2]] = n }

\* The innermost node that creates a scope among a node and its ancestors.
RECURSIVE ScopeCreator(_)
ScopeCreator(n) ==
  IF createsNewScope(nodes[n].ASType) \/ nodes[n].parent = 0 THEN n
  ELSE ScopeCreator(nodes[n].parent)

ImmutablePlaces ==
  { \* f: fn () void { x: immutable i32 = 1  ...  }
    [head |-> <<102, 58, 32, 102, 110, 32, 40, 41, 32, 118, 111, 105, 100, 32, 123, 32, 120, 58, 32,
       105, 109, 109, 117, 116, 97, 98, 108, 101, 32, 105, 51, 50, 32, 61, 32, 49, 32>>,
     tail |-> <<32, 125>>],
    \* f: fn () void { x: i32 = 1  ...  }
    [head |-> <<102, 58, 32, 102, 110, 32, 40, 41, 32, 118, 111, 105, 100, 32, 123, 32, 120, 58, 32,
       105, 51, 50, 32, 61, 32, 49, 32>>,
     tail |-> <<32, 125>>],
    \* f: fn () void { x: immutable f64  ...  }
    [head |-> <<102, 58, 32, 102, 110, 32, 40, 41, 32, 118, 111, 105, 100, 32, 123, 32, 120, 58, 32,
       105, 109, 109, 117, 116, 97, 98, 108, 101, 32, 102, 54, 52, 32>>,
     tail |-> <<32, 125>>],
    \* x: immutable i32 = 1 \n f: fn () void {  ...  }
    [head |-> <<120, 58, 32, 105, 109, 109, 117, 116, 97, 98, 108, 101, 32, 105, 51, 50, 32, 61, 32, 49,
       10, 102, 58, 32, 102, 110, 32, 40, 41, 32, 118, 111, 105, 100, 32, 123, 32>>,
     tail |-> <<32, 125>>],
    \* x: i64 = 1x64 \n f: fn () void {  ...  }
    [head |-> <<120, 58, 32, 105, 54, 52, 32, 61, 32, 49, 120, 54, 52, 10, 102, 58, 32, 102, 110, 32,
       40, 41, 32, 118, 111, 105, 100, 32, 123, 32>>,
     tail |-> <<32, 125>>],
    \* import x: i32 from "a/b" \n f: fn () void {  ...  }
    [head |-> <<105, 109, 112, 111, 114, 116, 32, 120, 58, 32, 105, 51, 50, 32, 102, 114, 111, 109, 32,
       34, 97, 47, 98, 34, 10, 102, 58, 32, 102, 110, 32, 40, 41, 32, 118, 111, 105, 100, 32,
       123, 32>>,
     tail |-> <<32, 125>>],
    \* f: fn (x: i32) void {  ...  }
    [head |-> <<102, 58, 32, 102, 110, 32, 40, 120, 58, 32, 105, 51, 50, 41, 32, 118, 111, 105, 100, 32,
       123, 32>>,
     tail |-> <<32, 125>>] }

ImmutableStatements ==
  { \* x
    <<120>>,
    \* x = x
    <<120, 32, 61, 32, 120>>,
    \* x++
    <<120, 43, 43>>,
    \* x--
    <<120, 45, 45>>,
    \* y: i32 = 1 y = y
    <<121, 58, 32, 105, 51, 50, 32, 61, 32, 49, 32, 121, 32, 61, 32, 121>> }

ImmutableProgram(where, statement) == where.head \o statement \o where.tail \o <<10>>

ImmutableSamples ==
  { \* f: fn () void { x: immutable i32 = 1 # } \n
    <<102, 58, 32, 102, 110, 32, 40, 41, 32, 118, 111, 105, 100, 32, 123, 32, 120, 58, 32, 105,
      109, 109, 117, 116, 97, 98, 108, 101, 32, 105, 51, 50, 32, 61, 32, 49, 32, 35, 32, 125, 10>>,
    \* x: immutable i32 = 1 \n f: fn (p: i32) i32 { y: immutable i32 = -1 p = y or x p++ } \n
    <<120, 58, 32, 105, 109, 109, 117, 116, 97, 98, 108, 101, 32, 105, 51, 50, 32, 61, 32, 49,
      10, 102, 58, 32, 102, 110, 32, 40, 112, 58, 32, 105, 51, 50, 41, 32, 105, 51, 50, 32,
      123, 32, 121, 58, 32, 105, 109, 109, 117, 116, 97, 98, 108, 101, 32, 105, 51, 50, 32, 61,
      32, 45, 49, 32, 112, 32, 61, 32, 121, 32, 111, 114, 32, 120, 32, 112, 43, 43, 32, 125, 10>>,
    \* default_memory 1 void \n f: fn () void { q: immutable ptr i32 = 0 q[0] = 1 } \n
    <<100, 101, 102, 97, 117, 108, 116, 95, 109, 101, 109, 111, 114, 121, 32, 49, 32, 118, 111,
      105, 100, 10, 102, 58, 32, 102, 110, 32, 40, 41, 32, 118, 111, 105, 100, 32, 123, 32,
      113, 58, 32, 105, 109, 109, 117, 116, 97, 98, 108, 101, 32, 112, 116, 114, 32, 105, 51,
      50, 32, 61, 32, 48, 32, 113, 91, 48, 93, 32, 61, 32, 49, 32, 125, 10>> }

ImmutableSources ==
  { ImmutableProgram(where, statement) :
      where \in ImmutablePlaces, statement \in ImmutableStatements }
    \cup ImmutableSamples

NextImmutables == Compile(ImmutableSources, 1)

SpecImmutables == Init /\ [][NextImmutables]_vars

\* The named variables that are immutable: declared immutable or imported.
ImmutableVariables ==
  { v \in 1..Len(defs) : defs[v].kind = "global" /\ ~IsTemp(v) /\ ~defs[v].mutable }

\* The instructions that write to a variable: the set_local and tee_local
\* of its index in the function that holds it, the set_global of its index
\* in any function; each as the function and the number of the record.
WritesTo(v) ==
  { at \in (1..Len(glob.functions)) \X (1..Len(bc.parts)) :
      LET records == RecordsOf(glob.functions[at[1]])
          k == at[2]
      IN /\ k < Len(records)
         /\ records[k].field = "op"
         /\ IF defs[v].isGlobal
            THEN records[k].value = "set_global" /\ records[k + 1].field = "global_index"
            ELSE /\ records[k].value \in {"set_local", "tee_local"}
                 /\ records[k + 1].field = "local_index"
                 /\ \E i \in 1..Len(LocalsOf(glob.functions[at[1]])) :
                      LocalsOf(glob.functions[at[1]])[i] = v
         /\ records[k + 1].value = NumOfNat(defs[v].index) }

\* The assignments attached to the definition of a variable.
InitialAssignments(v) ==
  { n \in 1..Len(nodes) :
      /\ nodes[n].ASType = "ASSIGN"
      /\ nodes[nodes[n].children[1]].ASType = "DEFINITION"
      /\ nodes[nodes[n].children[1]].meta.kind = "definition"
      /\ nodes[nodes[n].children[1]].meta.definition = v }

\* C26: in a generated module the only instructions that write to an
\* immutable variable (one declared immutable or imported) are those of the
\* initial assignment attached to its definition: no other assignment and
\* no suffix ++ or -- has emitted a write to it.
C26_ImmutabilityEnforced ==
  Generated =>
    \A v \in ImmutableVariables :
      Cardinality(WritesTo(v)) = Cardinality(InitialAssignments(v))

(***************************************************************************)
(* Operators: the editor is given a function with one parameter a of a     *)
(* storage type and, as its body, one operator of the operator table       *)
(* applied to a - every operator token, on every operand type - or an      *)
(* expression whose mnemonic the emitter composes; or one of a few sample  *)
(* programs.                                                               *)
(***************************************************************************)
\* The function around the expression: the text before and the text after it.
OperatorPlaces ==
  { \* f: fn (a: i32) void {  ...  }
    [head |-> <<102, 58, 32, 102, 110, 32, 40, 97, 58, 32, 105, 51, 50, 41, 32, 118, 111, 105, 100, 32,
       123, 32>>,
     tail |-> <<32, 125>>],
    \* f: fn (a: i64) void {  ...  }
    [head |-> <<102, 58, 32, 102, 110, 32, 40, 97, 58, 32, 105, 54, 52, 41, 32, 118, 111, 105, 100, 32,
       123, 32>>,
     tail |-> <<32, 125>>],
    \* f: fn (a: f32) void {  ...  }
    [head |-> <<102, 58, 32, 102, 110, 32, 40, 97, 58, 32, 102, 51, 50, 41, 32, 118, 111, 105, 100, 32,
       123, 32>>,
     tail |-> <<32, 125>>],
    \* f: fn (a: f64) void {  ...  }
    [head |-> <<102, 58, 32, 102, 110, 32, 40, 97, 58, 32, 102, 54, 52, 41, 32, 118, 111, 105, 100, 32,
       123, 32>>,
     tail |-> <<32, 125>>] }

OperatorStatements ==
  { \* a == a
    <<97, 32, 61, 61, 32, 97>>,
    \* a != a
    <<97, 32, 33, 61, 32, 97>>,
    \* a < a
    <<97, 32, 60, 32, 97>>,
    \* a |<| a
    <<97, 32, 124, 60, 124, 32, 97>>,
    \* a > a
    <<97, 32, 62, 32, 97>>,
    \* a |>| a
    <<97, 32, 124, 62, 124, 32, 97>>,
    \* a <= a
    <<97, 32, 60, 61, 32, 97>>,
    \* a |<=| a
    <<97, 32, 124, 60, 61, 124, 32, 97>>,
    \* a >= a
    <<97, 32, 62, 61, 32, 97>>,
    \* a |>=| a
    <<97, 32, 124, 62, 61, 124, 32, 97>>,
    \* a + a
    <<97, 32, 43, 32, 97>>,
    \* a - a
    <<97, 32, 45, 32, 97>>,
    \* a * a
    <<97, 32, 42, 32, 97>>,
    \* a / a
    <<97, 32, 47, 32, 97>>,
    \* a |/| a
    <<97, 32, 124, 47, 124, 32, 97>>,
    \* a & a
    <<97, 32, 38, 32, 97>>,
    \* a | a
    <<97, 32, 124, 32, 97>>,
    \* a xor a
    <<97, 32, 120, 111, 114, 32, 97>>,
    \* a with_sign_of a
    <<97, 32, 119, 105, 116, 104, 95, 115, 105, 103, 110, 95, 111, 102, 32, 97>>,
    \* a % a
    <<97, 32, 37, 32, 97>>,
    \* a |%| a
    <<97, 32, 124, 37, 124, 32, 97>>,
    \* a << a
    <<97, 32, 60, 60, 32, 97>>,
    \* a >> a
    <<97, 32, 62, 62, 32, 97>>,
    \* a >>> a
    <<97, 32, 62, 62, 62, 32, 97>>,
    \* a rotate_left a
    <<97, 32, 114, 111, 116, 97, 116, 101, 95, 108, 101, 102, 116, 32, 97>>,
    \* a rotate_right a
    <<97, 32, 114, 111, 116, 97, 116, 101, 95, 114, 105, 103, 104, 116, 32, 97>>,
    \* a ?< a
    <<97, 32, 63, 60, 32, 97>>,
    \* a ?> a
    <<97, 32, 63, 62, 32, 97>>,
    \* cast_i32 a
    <<99, 97, 115, 116, 95, 105, 51, 50, 32, 97>>,
    \* cast_i64 a
    <<99, 97, 115, 116, 95, 105, 54, 52, 32, 97>>,
    \* cast_f32 a
    <<99, 97, 115, 116, 95, 102, 51, 50, 32, 97>>,
    \* cast_f64 a
    <<99, 97, 115, 116, 95, 102, 54, 52, 32, 97>>,
    \* to_i32 a
    <<116, 111, 95, 105, 51, 50, 32, 97>>,
    \* to_i64 a
    <<116, 111, 95, 105, 54, 52, 32, 97>>,
    \* to_f32 a
    <<116, 111, 95, 102, 51, 50, 32, 97>>,
    \* to_f64 a
    <<116, 111, 95, 102, 54, 52, 32, 97>>,
    \* abs a
    <<97, 98, 115, 32, 97>>,
    \* ceil a
    <<99, 101, 105, 108, 32, 97>>,
    \* count_ones a
    <<99, 111, 117, 110, 116, 95, 111, 110, 101, 115, 32, 97>>,
    \* floor a
    <<102, 108, 111, 111, 114, 32, 97>>,
    \* leading_zeros a
    <<108, 101, 97, 100, 105, 110, 103, 95, 122, 101, 114, 111, 115, 32, 97>>,
    \* round a
    <<114, 111, 117, 110, 100, 32, 97>>,
    \* sqrt a
    <<115, 113, 114, 116, 32, 97>>,
    \* trailing_zeros a
    <<116, 114, 97, 105, 108, 105, 110, 103, 95, 122, 101, 114, 111, 115, 32, 97>>,
    \* truncate a
    <<116, 114, 117, 110, 99, 97, 116, 101, 32, 97>>,
    \* ! a
    <<33, 32, 97>>,
    \* allocate_pages a
    <<97, 108, 108, 111, 99, 97, 116, 101, 95, 112, 97, 103, 101, 115, 32, 97>>,
    \* a and a
    <<97, 32, 97, 110, 100, 32, 97>>,
    \* a or a
    <<97, 32, 111, 114, 32, 97>>,
    \* a++
    <<97, 43, 43>>,
    \* a--
    <<97, 45, 45>>,
    \* a = 1
    <<97, 32, 61, 32, 49>> }

OperatorProgram(where, statement) == where.head \o statement \o where.tail \o <<10>>

OperatorSamples ==
  { \* f: fn () void { a # b } \n
    <<102, 58, 32, 102, 110, 32, 40, 41, 32, 118, 111, 105, 100, 32, 123, 32, 97, 32, 35, 32,
      98, 32, 125, 10>>,
    \* default_memory 1 void \n f: fn (p: ptr i32, q: ptr f64) i32 { q[0] = 2.5 p[0] = -1 p[0] } \n
    <<100, 101, 102, 97, 117, 108, 116, 95, 109, 101, 109, 111, 114, 121, 32, 49, 32, 118, 111,
      105, 100, 10, 102, 58, 32, 102, 110, 32, 40, 112, 58, 32, 112, 116, 114, 32, 105, 51, 50,
      44, 32, 113, 58, 32, 112, 116, 114, 32, 102, 54, 52, 41, 32, 105, 51, 50, 32, 123, 32,
      113, 91, 48, 93, 32, 61, 32, 50, 46, 53, 32, 112, 91, 48, 93, 32, 61, 32, 45, 49, 32,
      112, 91, 48, 93, 32, 125, 10>>,
    \* g: i32 = 1 \n f: fn (a: i64) i32 { if (a == 1x64) { g = g + 1 } else { g-- } g } \n
    <<103, 58, 32, 105, 51, 50, 32, 61, 32, 49, 10, 102, 58, 32, 102, 110, 32, 40, 97, 58, 32,
      105, 54, 52, 41, 32, 105, 51, 50, 32, 123, 32, 105, 102, 32, 40, 97, 32, 61, 61, 32, 49,
      120, 54, 52, 41, 32, 123, 32, 103, 32, 61, 32, 103, 32, 43, 32, 49, 32, 125, 32, 101,
      108, 115, 101, 32, 123, 32, 103, 45, 45, 32, 125, 32, 103, 32, 125, 10>> }

OperatorSources ==
  { OperatorProgram(where, statement) :
      where \in OperatorPlaces, statement \in OperatorStatements }
    \cup OperatorSamples

NextOperators == Compile(OperatorSources, 1)

SpecOperators == Init /\ [][NextOperators]_vars

\* The records written by byte(): one byte each, looked up in the code table
\* under the name kept as the value of the record.
ByteRecords == { k \in 1..Len(bc.parts) : bc.parts[k].singular }

\* The names byte() looked up and did not find: their records hold no byte.
UndefinedBytes ==
  { bc.parts[k].value : k \in { j \in ByteRecords : bc.parts[j].bytes = <<-1>> } }

\* C27: every mnemonic the operator table attaches to a node and every
\* mnemonic the function-body emitter composes is a key of the code table, so
\* no record written by byte() holds an undefined byte.
C27_OpcodeTableClosure == Generated => UndefinedBytes = {}


\* The code of a function: the records of its body, immediates included.
CodeOf(d) ==
  SelectSeq(RecordsOf(d), LAMBDA part : \E i \in 1..Len(part.path) : part.path[i] = "code")

\* The type of the local of a function that an index names.
LocalType(d, value) ==
  LET named == { i \in 1..Len(LocalsOf(d)) : NumOfNat(defs[LocalsOf(d)[i]].index) = value }
  IN IF named = {} THEN "unknown" ELSE defs[LocalsOf(d)[CHOOSE i \in named : TRUE]].runType

\* The type of the value the instruction ending at record k of a function
\* leaves on the stack, for the instructions the emitter puts before an `if`
\* and at the head of its first arm: a test for zero or for equality leaves
\* an i32, a constant its own type, a get or a tee the type of the local.
LeftOnStack(d, k) ==
  LET code == CodeOf(d)
  IN IF k < 1 \/ k > Len(code) THEN "unknown"
     ELSE IF code[k].field = "op"
       THEN IF code[k].value \in {"i32.eqz", "i64.eqz", "i32.eq", "i64.eq", "f32.eq", "f64.eq"}
            THEN "i32"
            ELSE "unknown"
     ELSE IF code[k].field = "local_index" /\ k > 1 /\ code[k - 1].field = "op"
       THEN IF code[k - 1].value \in {"get_local", "tee_local"}
            THEN LocalType(d, code[k].value)
            ELSE "unknown"
     ELSE IF code[k].field = "value" /\ k > 1 /\ code[k - 1].field = "op"
       THEN IF code[k - 1].value \in {"i32.const", "i64.const", "f32.const", "f64.const"}
            THEN SubSeq(code[k - 1].value, 1, 3)
            ELSE "unknown"
     ELSE "unknown"

\* The `if` instructions of the generated functions: the function and the
\* number of the record in its code.
EmittedIfs ==
  { at \in (1..Len(glob.functions)) \X (1..Len(bc.parts)) :
      LET code == CodeOf(glob.functions[at[1]])
      IN /\ at[2] < Len(code)
         /\ code[at[2]].field = "op"
         /\ code[at[2]].value = "if"
         /\ code[at[2] + 1].field = "block_type" }

\* C30: in the module generated for a program whose only `and` or `or` was
\* accepted with operands of type i32, i64, f32 or f64, the value the `if`
\* consumes as its condition is an i32, the `if` block is typed with the
\* operand type and its first arm begins with a value of that type.
C30_ShortCircuitCondition ==
  Generated =>
    \A n \in Booleans :
      Booleans = {n} /\ nodes[n].runType \in ValueTypes =>
        /\ EmittedIfs # {}
        /\ \A at \in EmittedIfs :
             LET d == glob.functions[at[1]]
                 k == at[2]
             IN /\ LeftOnStack(d, k - 1) = "i32"
                /\ CodeOf(d)[k + 1].value = nodes[n].runType
                /\ LeftOnStack(d, k + 3) = nodes[n].runType

(***************************************************************************)
(* Scopes: the editor is given a program with a global, a function f with  *)
(* a local and a local of an inner block, and a function g with a local    *)
(* and a reference, the four definitions and the reference each named with *)
(* one of a few names; or one of a few sample programs.                    *)
(***************************************************************************)
\* x, y, valueOf
ScopeNames ==
  {<<120>>,
   <<121>>,
   <<118, 97, 108, 117, 101, 79, 102>>}

\* global: i32 = 1 \n f: fn () void { outer: i32 = 1 { inner: i32 = 1 } } \n
\* g: fn () void { other: i32 = 1 reference } \n
ScopeProgram(global, outer, inner, other, reference) ==
  global \o <<58, 32, 105, 51, 50, 32, 61, 32, 49, 10, 102, 58, 32, 102, 110, 32, 40, 41, 32, 118,
         111, 105, 100, 32, 123, 32>>
    \o outer \o <<58, 32, 105, 51, 50, 32, 61, 32, 49, 32, 123, 32>>
    \o inner \o <<58, 32, 105, 51, 50, 32, 61, 32, 49, 32, 125, 32, 125, 10, 103, 58, 32, 102, 110, 32,
         40, 41, 32, 118, 111, 105, 100, 32, 123, 32>>
    \o other \o <<58, 32, 105, 51, 50, 32, 61, 32, 49, 32>>
    \o reference \o <<32, 125, 10>>

ScopeSamples ==
  { \* f: fn () void { a # b } \n
    <<102, 58, 32, 102, 110, 32, 40, 41, 32, 118, 111, 105, 100, 32, 123, 32, 97, 32, 35, 32,
      98, 32, 125, 10>>,
    \* x: i32 = 1 \n f: fn (a: i32) i32 { y: i32 = -1 { z: i32 = a loop { w: i32 = z break } } x = y x } \n g: fn (a: i32) i32 { y: i32 = f(a) y } \n
    <<120, 58, 32, 105, 51, 50, 32, 61, 32, 49, 10, 102, 58, 32, 102, 110, 32, 40, 97, 58, 32,
      105, 51, 50, 41, 32, 105, 51, 50, 32, 123, 32, 121, 58, 32, 105, 51, 50, 32, 61, 32, 45,
      49, 32, 123, 32, 122, 58, 32, 105, 51, 50, 32, 61, 32, 97, 32, 108, 111, 111, 112, 32,
      123, 32, 119, 58, 32, 105, 51, 50, 32, 61, 32, 122, 32, 98, 114, 101, 97, 107, 32, 125,
      32, 125, 32, 120, 32, 61, 32, 121, 32, 120, 32, 125, 10, 103, 58, 32, 102, 110, 32, 40,
      97, 58, 32, 105, 51, 50, 41, 32, 105, 51, 50, 32, 123, 32, 121, 58, 32, 105, 51, 50, 32,
      61, 32, 102, 40, 97, 41, 32, 121, 32, 125, 10>>,
    \* f: fn (a: i32) i32 { a: i32 = 1 a } \n
    <<102, 58, 32, 102, 110, 32, 40, 97, 58, 32, 105, 51, 50, 41, 32, 105, 51, 50, 32, 123, 32,
      97, 58, 32, 105, 51, 50, 32, 61, 32, 49, 32, 97, 32, 125, 10>>,
    \* f: fn () i32 { y: i32 = 1 { y } } \n g: fn () i32 { f } \n
    <<102, 58, 32, 102, 110, 32, 40, 41, 32, 105, 51, 50, 32, 123, 32, 121, 58, 32, 105, 51,
      50, 32, 61, 32, 49, 32, 123, 32, 121, 32, 125, 32, 125, 10, 103, 58, 32, 102, 110, 32,
      40, 41, 32, 105, 51, 50, 32, 123, 32, 102, 32, 125, 10>> }

\* The global is x or valueOf, the reference x or y.
ScopeSources ==
  { ScopeProgram(global, outer, inner, other, reference) :
      global \in {<<120>>, <<118, 97, 108, 117, 101, 79, 102>>}, outer \in ScopeNames, inner \in ScopeNames,
      other \in ScopeNames, reference \in {<<120>>, <<121>>} }
    \cup ScopeSamples

NextScopes == Compile(ScopeSources, 1)

SpecScopes == Init /\ [][NextScopes]_vars

\* The definitions recorded in a scope, and those recorded in it or in one of
\* its ancestors.
DefinitionsOf(scope) ==
  { scopes[scope].definitions[i] : i \in 1..Len(scopes[scope].definitions) }

ChainDefinitions(scope) == UNION { DefinitionsOf(s) : s \in ScopeChain(scope) }

\* The names map of every scope holds the definitions recorded in the scope
\* and in its ancestors, each under its name, and nothing else; no two of
\* them have the same name.
NamesExact ==
  \A scope \in 1..Len(scopes) :
    /\ DOMAIN scopes[scope].names = { defs[d].name : d \in ChainDefinitions(scope) }
    /\ \A d \in ChainDefinitions(scope) : scopes[scope].names[defs[d].name] = d
    /\ \A d, e \in ChainDefinitions(scope) : defs[d].name = defs[e].name => d = e

\* Some definition has the name of another definition of its scope or of an
\* ancestor of its scope.
DuplicateOnPath ==
  \E scope \in 1..Len(scopes) :
    \E d \in DefinitionsOf(scope), e \in ChainDefinitions(scope) :
      d # e /\ defs[d].name = defs[e].name

\* A reference to a definition it cannot be used as: a function read as a
\* variable, a call of what is no function, an access through what is no
\* pointer.
Misused(n) ==
  /\ nodes[nodes[n].parent].ASType \notin {"EXPORT", "AS"}
  /\ \E d \in Referable(n) :
       \/ nodes[n].ASType = "VARIABLE" /\ defs[d].ASType \in {"FN", "FN_SIGNATURE"}
       \/ nodes[n].ASType = "CALL" /\ defs[d].ASType \notin {"FN", "FN_SIGNATURE", "FN_PTR"}
       \/ nodes[n].ASType = "MEMORY_ACCESS" /\ defs[d].ASType # "PTR"

\* C28: after resolve the names map of each scope is exactly the set of the
\* definitions recorded in the scope and in its ancestors, no name twice on a
\* path.  Resolving a program in which a definition reuses a name of its own
\* or of an enclosing scope raises Duplicate Definition; one without such a
\* definition in which a reference names nothing of its scope or of an
\* enclosing one (a local of a sibling scope, say) raises Unresolvable
\* Reference; and one with neither is resolved, so that sibling scopes may
\* each define the same name.
C28_ScopeVisibility ==
  /\ [](Validated => NamesExact)
  /\ [][pc = "resolve" /\ (\A n \in References : ~Misused(n)) =>
          /\ DuplicateOnPath /\ (\A n \in References : Referable(n) # {})
               => err' = CompileError("Duplicate Definition")
          /\ ~DuplicateOnPath /\ (\E n \in References : Referable(n) = {})
               => err' = CompileError("Unresolvable Reference")
          /\ ~DuplicateOnPath /\ (\A n \in References : Referable(n) # {})
               => pc' = "validate"]_vars

====
